---- MODULE Spec2Model ----
(***************************************************************************)
(* TutTiud onboarding back end: the control-store access guard, the        *)
(* credential cipher and the store-tuttiud-app-key request handler, as a   *)
(* state machine over the control store (organizations, org_settings,      *)
(* org_memberships) and the requests in flight.                            *)
(*                                                                         *)
(* JavaScript values are tagged records: Null, S(chars) for a string (its  *)
(* characters as a sequence of one-character strings), Obj(fields) for a   *)
(* plain object, Arr for an array.                                         *)
(***************************************************************************)
EXTENDS Integers, Sequences, FiniteSets, TLC

VARIABLES
    organizations,  \* control store: org id -> dedicated_key_encrypted (Null or a blob)
    org_settings,   \* control store: org id -> metadata document, or NoRow
    reqs,           \* store-tuttiud-app-key invocations in flight: slot -> locals
    hist,           \* history: what the completed requests did (for the properties)
    fn,             \* last call of a pure function: [op, args, result]
    wiz             \* the setup wizard page of one browser session: its React state,
                    \* its queries and its requests in flight

vars == <<organizations, org_settings, reqs, hist, fn, wiz>>

-----------------------------------------------------------------------------
(* JavaScript values *)

Null == [t |-> "null"]
S(chars) == [t |-> "str", s |-> chars]
Arr == [t |-> "arr"]
Obj(fields) == [t |-> "obj", f |-> fields]
\* a number and a boolean, as a tenant function may return them for its data
Number(n) == [t |-> "num", n |-> n]
Boolean(b) == [t |-> "bool", b |-> b]
EmptyFields == [k \in {} |-> Null]

IsString(v) == v.t = "str"
\* JavaScript truthiness of the values the model uses (b64: a base64 string,
\* held as the bytes it encodes)
Truthy(v) == CASE v.t = "null" -> FALSE
               [] v.t = "str" -> v.s /= <<>>
               [] v.t = "b64" -> v.b64 /= <<>>
               [] v.t = "num" -> v.n /= 0
               [] v.t = "bool" -> v.b
               [] OTHER -> TRUE

\* value || other
OrElse(v, other) == IF Truthy(v) THEN v ELSE other

\* utils.js isRecord
isRecord(value) == Truthy(value) /\ value.t = "obj"

-----------------------------------------------------------------------------
(* Characters and strings *)

Digits == <<"0", "1", "2", "3", "4", "5", "6", "7", "8", "9">>
Upper ==
    <<"A", "B", "C", "D", "E", "F", "G", "H", "I", "J", "K", "L", "M",
      "N", "O", "P", "Q", "R", "S", "T", "U", "V", "W", "X", "Y", "Z">>
Lower ==
    <<"a", "b", "c", "d", "e", "f", "g", "h", "i", "j", "k", "l", "m",
      "n", "o", "p", "q", "r", "s", "t", "u", "v", "w", "x", "y", "z">>

IndexIn(table, c) == CHOOSE k \in 1..Len(table) : table[k] = c
Occurs(table, c) == \E k \in 1..Len(table) : table[k] = c

\* the ASCII code of a character of the model's alphabet
CharCode(c) ==
    CASE c = "\t" -> 9
      [] c = "\n" -> 10
      [] c = " " -> 32
      [] c = "+" -> 43
      [] c = "-" -> 45
      [] c = "." -> 46
      [] c = "/" -> 47
      [] c = "=" -> 61
      [] c = "_" -> 95
      [] Occurs(Digits, c) -> 47 + IndexIn(Digits, c)
      [] Occurs(Upper, c) -> 64 + IndexIn(Upper, c)
      [] Occurs(Lower, c) -> 96 + IndexIn(Lower, c)

\* String.prototype.toLowerCase on ASCII text
toLowerCase(chars) ==
    [i \in 1..Len(chars) |->
        IF Occurs(Upper, chars[i]) THEN Lower[IndexIn(Upper, chars[i])] ELSE chars[i]]

\* what \s matches and what trim() strips
IsSpace(c) == c \in {" ", "\t", "\n"}
\* what . does not match
IsLineTerminator(c) == c = "\n"

RECURSIVE trimStart(_)
trimStart(chars) ==
    IF chars /= <<>> /\ IsSpace(Head(chars)) THEN trimStart(Tail(chars)) ELSE chars

RECURSIVE trimEnd(_)
trimEnd(chars) ==
    IF chars /= <<>> /\ IsSpace(chars[Len(chars)])
    THEN trimEnd(SubSeq(chars, 1, Len(chars) - 1))
    ELSE chars

\* String.prototype.trim
trim(chars) == trimEnd(trimStart(chars))

\* a request field that is trimmed when it is a string and is the empty string otherwise
trimmedString(v) == IF IsString(v) THEN trim(v.s) ELSE <<>>

Max(set) == CHOOSE x \in set : \A y \in set : y <= x

-----------------------------------------------------------------------------
(* The control store as the guard sees it: the identity service and the     *)
(* org_memberships table. Neither is written by any code of the repository. *)

o1 == <<"o", "1">>
o2 == <<"o", "2">>
o9 == <<"o", "9">>          \* an id with no row in organizations

MEMBER == S(<<"m", "e", "m", "b", "e", "r">>)
ADMIN == S(<<"a", "d", "m", "i", "n">>)
OWNER == S(<<"o", "w", "n", "e", "r">>)

\* role values as they may be stored in org_memberships.role
StoredRoles ==
    { Null, S(<<>>), MEMBER, ADMIN, OWNER,
      S(<<"A", "d", "m", "i", "n">>), S(<<"O", "W", "N", "E", "R">>),
      S(<<"a", "d", "m", "i", "n", " ">>), S(<<"s", "u", "p", "e", "r", "a", "d", "m", "i", "n">>),
      S(<<"o", "w", "n", "e", "r", "s">>), S(<<"r", "o", "o", "t">>) }

\* adminClient.auth.getUser(token): the user a token belongs to, or NoUser
NoUser == "none"
Tokens ==
    { <<"t", "1">>, <<"t", "2">>, <<"t", "3">>, <<"t", "4">>, <<"t", "5">>, <<"t", "6">> }
getUser(token) ==
    CASE token = <<"t", "1">> -> "u1"
      [] token = <<"t", "2">> -> "u2"
      [] token = <<"t", "3">> -> "u3"
      [] token = <<"t", "4">> -> "u4"
      [] token = <<"t", "5">> -> "u5"
      [] token = <<"t", "6">> -> "u6"
      [] OTHER -> NoUser

\* org_memberships: (org_id, user_id) -> the row's role; no entry, no row
NoRow == [t |-> "norow"]
Memberships ==
    ( <<o1, "u1">> :> OWNER ) @@
    ( <<o1, "u2">> :> S(<<"A", "d", "m", "i", "n">>) ) @@
    ( <<o1, "u3">> :> MEMBER ) @@
    ( <<o1, "u4">> :> Null ) @@
    ( <<o1, "u5">> :> S(<<"s", "u", "p", "e", "r", "a", "d", "m", "i", "n">>) ) @@
    ( <<o2, "u3">> :> S(<<"O", "W", "N", "E", "R">>) ) @@
    ( <<o2, "u2">> :> MEMBER ) @@
    ( <<o9, "u1">> :> ADMIN )

membershipRow(table, orgId, userId) ==
    IF <<orgId, userId>> \in DOMAIN table THEN table[<<orgId, userId>>] ELSE NoRow

-----------------------------------------------------------------------------
(* tenant-context.js: the control-store access guard *)

ROLE_HIERARCHY == (MEMBER :> 0) @@ (ADMIN :> 1) @@ (OWNER :> 2)

\* ROLE_HIERARCHY[name] ?? 0
rankOf(name) == IF name \in DOMAIN ROLE_HIERARCHY THEN ROLE_HIERARCHY[name] ELSE 0

\* normaliseRole with a looser match: any role ending in "admin" counts as admin
normaliseRoleSuffix(role) ==
    IF ~Truthy(role) THEN MEMBER
    ELSE LET lower == toLowerCase(role.s)
             n == Len(lower)
         IN IF S(lower) = OWNER THEN OWNER
            ELSE IF n >= 5 /\ SubSeq(lower, n - 4, n) = ADMIN.s THEN ADMIN
            ELSE MEMBER

normaliseRole(role) ==
    IF ~Truthy(role) THEN MEMBER
    ELSE LET lower == S(toLowerCase(role.s))
         IN IF lower = OWNER \/ lower = ADMIN THEN lower ELSE MEMBER

\* ensureRole with the comparison made strict
ensureRoleStrict(currentRole, required) ==
    rankOf(normaliseRole(currentRole)) > rankOf(required)

\* ensureRole with the two ranks swapped
ensureRoleSwapped(currentRole, required) ==
    rankOf(required) >= rankOf(normaliseRole(currentRole))

ensureRole(currentRole, required) ==
    LET currentRank == rankOf(normaliseRole(currentRole))
        requiredRank == rankOf(required)
    IN currentRank >= requiredRank

\* getBearerToken without the scheme check: whatever follows the first run of
\* white space is the token
getBearerTokenAnyScheme(req) ==
    LET header == OrElse(req.headers.authorization, req.headers.Authorization)
    IN IF ~Truthy(header) THEN Null
       ELSE LET h == header.s
                spaces == { i \in 1..Len(h) : IsSpace(h[i]) }
            IN IF spaces = {} THEN Null
               ELSE S(trim(SubSeq(h, (CHOOSE i \in spaces : \A j \in spaces : i <= j), Len(h))))

\* /^Bearer\s+(.+)$/i on the header, then trim() of the captured group:
\* Null when there is no header or no match
BearerWord == <<"b", "e", "a", "r", "e", "r">>
getBearerToken(req) ==
    LET header == OrElse(req.headers.authorization, req.headers.Authorization)
    IN IF ~Truthy(header) THEN Null
       ELSE LET h == header.s
                n == Len(h)
                \* j = number of characters taken by \s+; (.+) takes the rest
                splits == { j \in 1..(n - 7) :
                              /\ \A i \in 7..(6 + j) : IsSpace(h[i])
                              /\ \A i \in (7 + j)..n : ~IsLineTerminator(h[i]) }
            IN IF n >= 8 /\ toLowerCase(SubSeq(h, 1, 6)) = BearerWord /\ splits /= {}
               THEN S(trim(SubSeq(h, 7 + Max(splits), n)))
               ELSE Null

\* supabase.js createAdminClient: throws when the service configuration is incomplete
adminConfigComplete(env) ==
    Truthy(env.SUPABASE_URL) /\ Truthy(env.SUPABASE_SERVICE_ROLE_KEY)

\* loadControlContext without the check that a membership row came back: a
\* missing row is read as a row without a role
loadControlContextNoRowCheck(req, orgId, requireRole, env, memberships, membershipError) ==
    LET token == getBearerToken(req)
        user == getUser(token.s)
        found == membershipRow(memberships, orgId, user)
        role == normaliseRole(IF found = NoRow THEN Null ELSE found)
        calls == <<"auth.getUser", "org_memberships">>
        fail(status, made) ==
            [ok |-> FALSE, status |-> status, user |-> NoUser, role |-> Null, calls |-> made]
    IN IF orgId = <<>> THEN fail(400, <<>>)
       ELSE IF ~adminConfigComplete(env) THEN fail(500, <<>>)
       ELSE IF ~Truthy(token) THEN fail(401, <<>>)
       ELSE IF user = NoUser THEN fail(401, <<"auth.getUser">>)
       ELSE IF membershipError THEN fail(500, calls)
       ELSE IF ~ensureRole(role, requireRole) THEN fail(403, calls)
       ELSE [ok |-> TRUE, status |-> 0, user |-> user, role |-> role, calls |-> calls]

\* What the guard answers: ok with the user and the normalised role, or the
\* status of the error it throws. calls lists the control-store calls made, in
\* order. memberships is the org_memberships table, membershipError says
\* whether the query on it comes back with an error.
GuardFailure(status, calls) ==
    [ok |-> FALSE, status |-> status, user |-> NoUser, role |-> Null, calls |-> calls]

loadControlContext(req, orgId, requireRole, env, memberships, membershipError) ==
    IF orgId = <<>> THEN GuardFailure(400, <<>>)
    ELSE IF ~adminConfigComplete(env) THEN GuardFailure(500, <<>>)
    ELSE LET token == getBearerToken(req)
         IN IF ~Truthy(token) THEN GuardFailure(401, <<>>)
            ELSE LET user == getUser(token.s)
                 IN IF user = NoUser THEN GuardFailure(401, <<"auth.getUser">>)
                    ELSE LET membership == membershipRow(memberships, orgId, user)
                             calls == <<"auth.getUser", "org_memberships">>
                         IN IF membershipError THEN GuardFailure(500, calls)
                            ELSE IF membership = NoRow THEN GuardFailure(403, calls)
                            ELSE LET role == normaliseRole(membership)
                                 IN IF ~ensureRole(role, requireRole)
                                    THEN GuardFailure(403, calls)
                                    ELSE [ok |-> TRUE, status |-> 0, user |-> user,
                                          role |-> role, calls |-> calls]

-----------------------------------------------------------------------------
(* encryption.js: the credential cipher. AES-256-GCM and SHA-256 are        *)
(* symbolic (perfect cryptography): a ciphertext byte names the key, the    *)
(* nonce and the position that produced it, a tag names what it            *)
(* authenticates. Buffers, their layout and base64 are computed.            *)

IvBytes == 12
TagBytes == 16
MinPayloadBytes == 28

\* UTF-16 code units outside ASCII, by name: e-acute, the Hebrew letter shin,
\* the euro sign, the two halves of U+1F600, the replacement character
NamedUnits == <<"u00E9", "u05E9", "u20AC", "uD83D", "uDE00", "uFFFD">>
UnitCodes == <<233, 1513, 8364, 55357, 56832, 65533>>
OtherUnit == "uXXXX"   \* any code unit the model has no name for

Alphabet ==
    {"\t", "\n", " ", "+", "-", ".", "/", "=", "_"}
      \cup {Digits[k] : k \in 1..Len(Digits)}
      \cup {Upper[k] : k \in 1..Len(Upper)}
      \cup {Lower[k] : k \in 1..Len(Lower)}
      \cup {NamedUnits[k] : k \in 1..Len(NamedUnits)}

\* String.prototype.charCodeAt
CodeUnit(c) == IF Occurs(NamedUnits, c) THEN UnitCodes[IndexIn(NamedUnits, c)] ELSE CharCode(c)
UnitName(u) ==
    IF \E c \in Alphabet : CodeUnit(c) = u THEN CHOOSE c \in Alphabet : CodeUnit(c) = u
    ELSE OtherUnit

IsHighSurrogate(u) == 55296 <= u /\ u <= 56319
IsLowSurrogate(u) == 56320 <= u /\ u <= 57343
ReplacementCharacter == 65533

\* the code points of a sequence of code units as the UTF-8 encoder reads it:
\* a high surrogate followed by a low one is one code point, any other
\* surrogate is U+FFFD
codePointsOf(units) ==
    LET n == Len(units)
        \* unit j is the second half of a pair
        trails(j) == j > 1 /\ IsLowSurrogate(units[j]) /\ IsHighSurrogate(units[j - 1])
        starts == SelectSeq([j \in 1..n |-> j], LAMBDA j : ~trails(j))
        codePoint(j) ==
            IF IsHighSurrogate(units[j]) /\ j < n /\ IsLowSurrogate(units[j + 1])
            THEN 65536 + (units[j] - 55296) * 1024 + (units[j + 1] - 56320)
            ELSE IF IsHighSurrogate(units[j]) \/ IsLowSurrogate(units[j])
            THEN ReplacementCharacter
            ELSE units[j]
    IN [k \in 1..Len(starts) |-> codePoint(starts[k])]

utf8Bytes(cp) ==
    IF cp < 128 THEN <<cp>>
    ELSE IF cp < 2048 THEN <<192 + (cp \div 64), 128 + (cp % 64)>>
    ELSE IF cp < 65536
    THEN <<224 + (cp \div 4096), 128 + ((cp \div 64) % 64), 128 + (cp % 64)>>
    ELSE <<240 + (cp \div 262144), 128 + ((cp \div 4096) % 64),
           128 + ((cp \div 64) % 64), 128 + (cp % 64)>>

RECURSIVE utf8OfCodePoints(_)
utf8OfCodePoints(cps) ==
    IF cps = <<>> THEN <<>> ELSE utf8Bytes(Head(cps)) \o utf8OfCodePoints(Tail(cps))

\* Buffer.from(text, 'utf8') / cipher.update(text, 'utf8')
utf8Encode(chars) == utf8OfCodePoints(codePointsOf([i \in 1..Len(chars) |-> CodeUnit(chars[i])]))

\* the byte the base64 decoder reads for a character: the low byte of its
\* code unit (the high half of U+1F600, 0xD83D, is read as 0x3D, "=")
base64Byte(c) == CodeUnit(c) % 256

\* the value of a byte of base64 text (standard and URL-safe alphabets), -1
\* for any other
sextetOf(b) ==
    CASE 65 <= b /\ b <= 90 -> b - 65
      [] 97 <= b /\ b <= 122 -> b - 71
      [] 48 <= b /\ b <= 57 -> b + 4
      [] b \in {43, 45} -> 62
      [] b \in {47, 95} -> 63
      [] OTHER -> -1

\* the sextets of the bytes of a base64 text: bytes outside the alphabet are
\* skipped, the first "=" ends the data
RECURSIVE sextetsOfBytes(_)
sextetsOfBytes(bytes) ==
    IF bytes = <<>> \/ Head(bytes) = CharCode("=") THEN <<>>
    ELSE IF sextetOf(Head(bytes)) < 0 THEN sextetsOfBytes(Tail(bytes))
    ELSE <<sextetOf(Head(bytes))>> \o sextetsOfBytes(Tail(bytes))

sextetsOf(chars) == sextetsOfBytes([i \in 1..Len(chars) |-> base64Byte(chars[i])])


Pow2(n) == CASE n = 0 -> 1 [] n = 2 -> 4 [] n = 4 -> 16

\* Buffer.from(text, 'base64')
base64Decode(chars) ==
    LET data == sextetsOf(chars)
        nbytes == (Len(data) * 6) \div 8
    IN [i \in 1..nbytes |->
          LET q == (8 * (i - 1)) \div 6
              r == (8 * (i - 1)) % 6
          IN ((data[q + 1] * 64 + data[q + 2]) \div Pow2(4 - r)) % 256]

\* crypto.createHash('sha256').update(text).digest(): the digest of the UTF-8
\* encoding of the text
sha256(chars) == [digest |-> "sha256", of |-> utf8Encode(chars)]

\* the 32-byte key of a secret; Thrown when the secret is missing
Thrown == [t |-> "thrown"]
deriveEncryptionKey(secret) ==
    IF ~Truthy(secret) THEN Thrown
    ELSE LET decoded == base64Decode(secret.s)
         IN IF Len(decoded) = 32 THEN [raw |-> decoded] ELSE sha256(secret.s)

\* the code units of a code point
unitsOfCodePoint(cp) ==
    IF cp < 65536 THEN <<cp>>
    ELSE <<55296 + ((cp - 65536) \div 1024), 56320 + ((cp - 65536) % 1024)>>

\* the units decoded from position i on: units[i] are the code units the
\* sequence starting at byte i decodes to, next[i] is where the one after it starts
RECURSIVE decodedFrom(_, _, _)
decodedFrom(units, next, i) ==
    IF i > Len(next) THEN <<>> ELSE units[i] \o decodedFrom(units, next, next[i])

\* buffer.toString('utf8'): each well-formed sequence is its code point; each
\* maximal prefix of a sequence that is cut short or goes wrong, and each byte
\* that can start no sequence, is one U+FFFD
utf8DecodeUnits(bytes) ==
    LET n == Len(bytes)
        \* the continuation bytes the lead byte at i asks for
        need(i) == CASE 194 <= bytes[i] /\ bytes[i] <= 223 -> 1
                     [] 224 <= bytes[i] /\ bytes[i] <= 239 -> 2
                     [] 240 <= bytes[i] /\ bytes[i] <= 244 -> 3
                     [] OTHER -> 0
        lower(i) == IF bytes[i] = 224 THEN 160 ELSE IF bytes[i] = 240 THEN 144 ELSE 128
        upper(i) == IF bytes[i] = 237 THEN 159 ELSE IF bytes[i] = 244 THEN 143 ELSE 191
        \* byte i + k is there and may be the k-th continuation byte of the sequence at i
        follows(i, k) ==
            /\ i + k <= n
            /\ (IF k = 1 THEN lower(i) ELSE 128) <= bytes[i + k]
            /\ bytes[i + k] <= (IF k = 1 THEN upper(i) ELSE 191)
        \* the continuation bytes taken after the lead byte at i
        accepted(i) ==
            IF need(i) = 0 \/ ~follows(i, 1) THEN 0
            ELSE IF need(i) = 1 \/ ~follows(i, 2) THEN 1
            ELSE IF need(i) = 2 \/ ~follows(i, 3) THEN 2
            ELSE 3
        codePoint(i) ==
            CASE need(i) = 1 -> (bytes[i] - 192) * 64 + (bytes[i + 1] - 128)
              [] need(i) = 2 -> (bytes[i] - 224) * 4096 + (bytes[i + 1] - 128) * 64
                                   + (bytes[i + 2] - 128)
              [] need(i) = 3 -> (bytes[i] - 240) * 262144 + (bytes[i + 1] - 128) * 4096
                                   + (bytes[i + 2] - 128) * 64 + (bytes[i + 3] - 128)
        units == [i \in 1..n |->
                    IF bytes[i] < 128 THEN <<bytes[i]>>
                    ELSE IF need(i) > 0 /\ accepted(i) = need(i)
                    THEN unitsOfCodePoint(codePoint(i))
                    ELSE <<ReplacementCharacter>>]
        next == [i \in 1..n |-> i + accepted(i) + 1]
    IN decodedFrom(units, next, 1)

utf8Decode(bytes) ==
    LET units == utf8DecodeUnits(bytes) IN [i \in 1..Len(units) |-> UnitName(units[i])]

\* b with the bits of mask (one bit) inverted
flipBit(b, mask) == IF (b \div mask) % 2 = 1 THEN b - mask ELSE b + mask

\* AES-256-GCM: byte i of the ciphertext is the plaintext byte combined with
\* byte i of the key stream of (key, iv); byte j of the tag is byte j of the
\* MAC of the ciphertext, xor the mask a later modification applied to it
gcmByte(key, iv, i, plain) == [key |-> key, iv |-> iv, at |-> i, plain |-> plain]
gcmTag(key, iv, encrypted) ==
    [j \in 1..TagBytes |-> [mac |-> <<key, iv, encrypted>>, at |-> j, xor |-> 0]]

\* a base64 string holding the given bytes
Base64String(bytes) == [t |-> "b64", b64 |-> bytes]

\* encryptValue reading the text as 'binary' (the low byte of each code unit)
encryptValueBinary(value, secret, iv) ==
    LET encryptionKey == deriveEncryptionKey(secret)
    IN IF encryptionKey = Thrown THEN Thrown
       ELSE LET plain == [i \in 1..Len(value) |-> CodeUnit(value[i]) % 256]
                encrypted == [i \in 1..Len(plain) |-> gcmByte(encryptionKey, iv, i, plain[i])]
                authTag == gcmTag(encryptionKey, iv, encrypted)
            IN Base64String(iv \o authTag \o encrypted)

\* iv is what crypto.randomBytes(12) returned
encryptValue(value, secret, iv) ==
    LET encryptionKey == deriveEncryptionKey(secret)
    IN IF encryptionKey = Thrown THEN Thrown
       ELSE LET plain == utf8Encode(value)
                encrypted == [i \in 1..Len(plain) |-> gcmByte(encryptionKey, iv, i, plain[i])]
                authTag == gcmTag(encryptionKey, iv, encrypted)
            IN Base64String(iv \o authTag \o encrypted)

\* decryptValue without the authentication tag set: the key stream is removed
\* and nothing is verified
decryptValueUnauthenticated(payload, secret) ==
    LET encryptionKey == deriveEncryptionKey(secret)
        buffer == payload.b64
    IN IF encryptionKey = Thrown THEN Thrown
       ELSE IF Len(buffer) < MinPayloadBytes THEN Thrown
       ELSE LET encrypted == SubSeq(buffer, MinPayloadBytes + 1, Len(buffer))
            IN S(utf8Decode([i \in 1..Len(encrypted) |-> encrypted[i].plain]))

\* the plaintext as a string, or Thrown
decryptValue(payload, secret) ==
    LET encryptionKey == deriveEncryptionKey(secret)
        buffer == payload.b64
    IN IF encryptionKey = Thrown THEN Thrown
       ELSE IF Len(buffer) < MinPayloadBytes THEN Thrown
       ELSE LET iv == SubSeq(buffer, 1, IvBytes)
                authTag == SubSeq(buffer, IvBytes + 1, MinPayloadBytes)
                encrypted == SubSeq(buffer, MinPayloadBytes + 1, Len(buffer))
            IN IF authTag /= gcmTag(encryptionKey, iv, encrypted) THEN Thrown
               ELSE IF \E i \in 1..Len(encrypted) :
                          \/ encrypted[i].key /= encryptionKey
                          \/ encrypted[i].iv /= iv
                          \/ encrypted[i].at /= i
                    THEN Thrown
               ELSE S(utf8Decode([i \in 1..Len(encrypted) |-> encrypted[i].plain]))

-----------------------------------------------------------------------------
(* tenant-context.js: the tenant context resolver *)

\* a row of a control-store table, or NoRow
rowOf(table, id) == IF id \in DOMAIN table THEN table[id] ELSE NoRow

ResolverFailure(status) ==
    [ok |-> FALSE, status |-> status, tenantClient |-> Null, user |-> NoUser, role |-> Null]

\* loadTenantContext answering a missing address as a server error
loadTenantContextAddress500(req, orgId, requireRole, env, io, memberships, orgs, settings) ==
    LET encryptionSecret == env.APP_ORG_CREDENTIALS_ENCRYPTION_KEY
    IN IF ~Truthy(encryptionSecret) THEN ResolverFailure(500)
       ELSE LET guard == loadControlContext(req, orgId, requireRole, env, memberships,
                                             io.membershipError)
                row == rowOf(settings, orgId)
                organization == rowOf(orgs, orgId)
            IN IF ~guard.ok THEN ResolverFailure(guard.status)
               ELSE IF io.settingsError THEN ResolverFailure(500)
               ELSE IF row = NoRow \/ ~Truthy(row.supabase_url) THEN ResolverFailure(500)
               ELSE IF io.organizationError THEN ResolverFailure(500)
               ELSE IF organization = NoRow \/ ~Truthy(organization.dedicated_key_encrypted)
                    THEN ResolverFailure(409)
               ELSE LET decryptedKey ==
                            decryptValue(organization.dedicated_key_encrypted, encryptionSecret)
                    IN IF decryptedKey = Thrown THEN ResolverFailure(500)
                       ELSE [ok |-> TRUE, status |-> 0,
                             tenantClient |-> [url |-> row.supabase_url, key |-> decryptedKey],
                             user |-> guard.user, role |-> guard.role]

\* io: which of the control-store queries come back with an error
loadTenantContext(req, orgId, requireRole, env, io, memberships, orgs, settings) ==
    LET encryptionSecret == env.APP_ORG_CREDENTIALS_ENCRYPTION_KEY
    IN IF ~Truthy(encryptionSecret) THEN ResolverFailure(500)
       ELSE LET guard == loadControlContext(req, orgId, requireRole, env, memberships,
                                             io.membershipError)
                row == rowOf(settings, orgId)
                organization == rowOf(orgs, orgId)
            IN IF ~guard.ok THEN ResolverFailure(guard.status)
               ELSE IF io.settingsError THEN ResolverFailure(500)
               ELSE IF row = NoRow \/ ~Truthy(row.supabase_url) THEN ResolverFailure(409)
               ELSE IF io.organizationError THEN ResolverFailure(500)
               ELSE IF organization = NoRow \/ ~Truthy(organization.dedicated_key_encrypted)
                    THEN ResolverFailure(409)
               ELSE LET decryptedKey ==
                            decryptValue(organization.dedicated_key_encrypted, encryptionSecret)
                    IN IF decryptedKey = Thrown THEN ResolverFailure(500)
                       ELSE [ok |-> TRUE, status |-> 0,
                             tenantClient |-> [url |-> row.supabase_url, key |-> decryptedKey],
                             user |-> guard.user, role |-> guard.role]

-----------------------------------------------------------------------------
(* store-tuttiud-app-key/index.js: pure parts *)

\* object spread with one more key
withField(fields, key, value) ==
    [k \in DOMAIN fields \cup {key} |-> IF k = key THEN value ELSE fields[k]]

fieldOr(fields, key, default) == IF key \in DOMAIN fields THEN fields[key] ELSE default

STORED == S(<<"s", "t", "o", "r", "e", "d">>)

\* buildStoredMetadata keeping a credentials.tuttiudAppJwt the caller sent
buildStoredMetadataKeepingCurrent(currentMetadata) ==
    LET base == IF isRecord(currentMetadata) THEN currentMetadata.f ELSE EmptyFields
        baseConnections == fieldOr(base, "connections", Null)
        baseCredentials == fieldOr(base, "credentials", Null)
        connections == IF isRecord(baseConnections) THEN baseConnections.f ELSE EmptyFields
        credentials == IF isRecord(baseCredentials) THEN baseCredentials.f ELSE EmptyFields
    IN Obj(withField(withField(base, "connections", Obj(connections)),
                     "credentials",
                     Obj(withField(credentials, "tuttiudAppJwt",
                                   fieldOr(credentials, "tuttiudAppJwt", STORED)))))

buildStoredMetadata(currentMetadata) ==
    LET base == IF isRecord(currentMetadata) THEN currentMetadata.f ELSE EmptyFields
        baseConnections == fieldOr(base, "connections", Null)
        baseCredentials == fieldOr(base, "credentials", Null)
        connections == IF isRecord(baseConnections) THEN baseConnections.f ELSE EmptyFields
        credentials == IF isRecord(baseCredentials) THEN baseCredentials.f ELSE EmptyFields
    IN Obj(withField(withField(base, "connections", Obj(connections)),
                     "credentials", Obj(withField(credentials, "tuttiudAppJwt", STORED))))

-----------------------------------------------------------------------------
(* src/lib/setup-wizard.ts: the metadata document and its normalisation *)

\* the fields of a value that is a record, no fields otherwise
recordFields(value) == IF isRecord(value) THEN value.f ELSE EmptyFields

\* object spread: the keys of base and of over, over winning
spread(base, over) ==
    [k \in DOMAIN base \cup DOMAIN over |-> IF k \in DOMAIN over THEN over[k] ELSE base[k]]

\* normaliseMetadata: { connections, credentials, raw }, each as its fields
normaliseMetadata(metadata) ==
    IF ~isRecord(metadata)
    THEN [connections |-> ("tuttiud" :> Null),
          credentials |-> ("tuttiudAppJwt" :> Null),
          raw |-> EmptyFields]
    ELSE LET connectionsSource == recordFields(fieldOr(metadata.f, "connections", Null))
             credentialsSource == recordFields(fieldOr(metadata.f, "credentials", Null))
             tuttiudValue == fieldOr(connectionsSource, "tuttiud", Null)
             normalizedTuttiud == IF IsString(tuttiudValue) THEN tuttiudValue ELSE Null
             normalizedConnections == withField(connectionsSource, "tuttiud", normalizedTuttiud)
             tuttiudAppJwtValue == fieldOr(credentialsSource, "tuttiudAppJwt", Null)
             normalizedTuttiudAppJwt ==
                 IF IsString(tuttiudAppJwtValue) /\ Len(trim(tuttiudAppJwtValue.s)) > 0
                 THEN tuttiudAppJwtValue ELSE Null
             normalizedCredentials ==
                 withField(credentialsSource, "tuttiudAppJwt", normalizedTuttiudAppJwt)
         IN [connections |-> normalizedConnections,
             credentials |-> normalizedCredentials,
             raw |-> spread(metadata.f,
                            ("connections" :> Obj(normalizedConnections))
                              @@ ("credentials" :> Obj(normalizedCredentials)))]

\* nextRaw of updateTuttiudConnectionStatus with every connection replaced by
\* the one being set
nextRawOverwriting(status, currentMetadata) ==
    LET current == normaliseMetadata(currentMetadata)
    IN Obj(spread(current.raw,
                  ("connections" :> Obj("tuttiud" :> status))
                    @@ ("credentials" :> Obj(recordFields(fieldOr(current.raw, "credentials", Null))))))

\* updateTuttiudConnectionStatus: the document it sends to org_settings.metadata
nextRaw(status, currentMetadata) ==
    LET current == normaliseMetadata(currentMetadata)
        existingConnections == recordFields(fieldOr(current.raw, "connections", Null))
    IN Obj(spread(current.raw,
                  ("connections" :> Obj(withField(existingConnections, "tuttiud", status)))
                    @@ ("credentials" :> Obj(recordFields(fieldOr(current.raw, "credentials", Null))))))

-----------------------------------------------------------------------------
(* The requests and the environment of the store-tuttiud-app-key handler *)

Slots == {"r1", "r2"}
Orgs == {o1, o2}

tenantUrl == <<"d", "b", "1">>   \* the tenant store address of o1
k0 == <<"k", "0">>          \* the application key stored before any request
k1 == <<"k", "1">>          \* application keys the tenant store accepts
k3 == <<"k", "3">>
k2 == <<"k", "2">>          \* a key the tenant store rejects

ServerSecret == S(<<"p", "a", "s", "s", "p", "h", "r", "a", "s", "e">>)
EnvComplete ==
    [SUPABASE_URL |-> S(<<"c", "t", "l">>),
     SUPABASE_SERVICE_ROLE_KEY |-> S(<<"s", "r", "k">>),
     APP_ORG_CREDENTIALS_ENCRYPTION_KEY |-> ServerSecret]
EnvNoUrl == [EnvComplete EXCEPT !.SUPABASE_URL = Null]
EnvNoSecret == [EnvComplete EXCEPT !.APP_ORG_CREDENTIALS_ENCRYPTION_KEY = Null]

\* what crypto.randomBytes(12) may return
IVs == { [i \in 1..IvBytes |-> 17], [i \in 1..IvBytes |-> 200 + i] }

Headers(lower, upper) == [authorization |-> lower, Authorization |-> upper]
Bearer(token) == S(<<"B", "e", "a", "r", "e", "r", " ">> \o token)

Connected == S(<<"c", "o", "n", "n", "e", "c", "t", "e", "d">>)
MetaConnected == Obj("connections" :> Obj("tuttiud" :> Connected))
MetaOther == Obj(("theme" :> S(<<"d", "a", "r", "k">>)) @@ ("credentials" :> Arr))

StoreBody(orgId, appKey, supabaseUrl, currentMetadata) ==
    [orgId |-> orgId, appKey |-> appKey, supabaseUrl |-> supabaseUrl,
     currentMetadata |-> currentMetadata]

StoreReq(method, headers, body, env) ==
    [method |-> method, headers |-> headers, body |-> body, env |-> env]

\* callers that pass the admin requirement for the organization they name
AcceptedRequests ==
    { StoreReq("POST", Headers(Bearer(<<"t", "2">>), Null),
               StoreBody(S(<<" ">> \o o1 \o <<" ">>), S(<<" ">> \o k1 \o <<"\n">>), S(tenantUrl), Null),
               EnvComplete),
      StoreReq("POST", Headers(Null, S(<<"b", "e", "a", "r", "e", "r", " ", "\t", "t", "1", " ">>)),
               StoreBody(S(o1), S(k2), S(tenantUrl), MetaConnected), EnvComplete),
      StoreReq("POST", Headers(Bearer(<<"t", "1">>), Null),
               StoreBody(S(o1), S(k3), S(<<" ">> \o tenantUrl), MetaOther), EnvComplete),
      StoreReq("POST", Headers(Bearer(<<"t", "3">>), Null),
               StoreBody(S(o2), S(k1), S(tenantUrl), Null), EnvComplete),
      StoreReq("POST", Headers(Bearer(<<"t", "1">>), Null),
               StoreBody(S(o9), S(k1), S(tenantUrl), Null), EnvComplete) }

\* requests the handler answers before it touches the organization
RefusedRequests ==
    { StoreReq("GET", Headers(Bearer(<<"t", "1">>), Null),
               StoreBody(S(o1), S(k1), S(tenantUrl), Null), EnvComplete),
      StoreReq("POST", Headers(Bearer(<<"t", "1">>), Null),
               StoreBody(S(o1), S(k1), S(tenantUrl), Null), EnvNoUrl),
      StoreReq("POST", Headers(Bearer(<<"t", "1">>), Null),
               StoreBody(S(o1), S(k1), S(tenantUrl), Null), EnvNoSecret),
      StoreReq("POST", Headers(Bearer(<<"t", "1">>), Null),
               StoreBody(S(o1), S(<<" ", " ">>), S(tenantUrl), Null), EnvComplete),
      StoreReq("POST", Headers(Bearer(<<"t", "1">>), Null),
               StoreBody(Arr, S(k1), S(tenantUrl), Null), EnvComplete),
      StoreReq("POST", Headers(Bearer(<<"t", "1">>), Null),
               StoreBody(S(o1), S(k1), Null, Null), EnvComplete),
      StoreReq("POST", Headers(Null, Null),
               StoreBody(S(o1), S(k1), S(tenantUrl), Null), EnvComplete),
      StoreReq("POST", Headers(S(<<>>), S(<<"B", "a", "s", "i", "c", " ", "t", "1">>)),
               StoreBody(S(o1), S(k1), S(tenantUrl), Null), EnvComplete),
      StoreReq("POST", Headers(S(<<"B", "e", "a", "r", "e", "r", "t", "1">>), Null),
               StoreBody(S(o1), S(k1), S(tenantUrl), Null), EnvComplete),
      StoreReq("POST", Headers(Bearer(<<"t", "x">>), Null),
               StoreBody(S(o1), S(k1), S(tenantUrl), Null), EnvComplete),
      StoreReq("POST", Headers(Bearer(<<"t", "3">>), Null),
               StoreBody(S(o1), S(k1), S(tenantUrl), Null), EnvComplete),
      StoreReq("POST", Headers(Bearer(<<"t", "4">>), Null),
               StoreBody(S(o1), S(k1), S(tenantUrl), Null), EnvComplete),
      StoreReq("POST", Headers(Bearer(<<"t", "5">>), Null),
               StoreBody(S(o1), S(k1), S(tenantUrl), Null), EnvComplete),
      StoreReq("POST", Headers(Bearer(<<"t", "6">>), Null),
               StoreBody(S(o1), S(k1), S(tenantUrl), Null), EnvComplete),
      StoreReq("POST", Headers(Bearer(<<"t", "2">>), Null),
               StoreBody(S(o2), S(k1), S(tenantUrl), Null), EnvComplete) }

StoreRequests == AcceptedRequests \cup RefusedRequests

\* the tenant store: tuttiud.setup_assistant_diagnostics called with a key
DiagnosticsOk == Obj("status" :> S(<<"o", "k">>))
tenantAccepts(url, key) == url = tenantUrl /\ key \in {k0, k1, k3}
\* the { data, error } the RPC may come back with
ProbeResults(url, key) ==
    IF tenantAccepts(url, key)
    THEN { [error |-> Null, data |-> DiagnosticsOk],
           [error |-> S(<<"t", "i", "m", "e", "o", "u", "t">>), data |-> Null] }
    ELSE { [error |-> S(<<"d", "e", "n", "i", "e", "d">>), data |-> Null] }

-----------------------------------------------------------------------------
(* store-tuttiud-app-key/index.js: the handler, one action per stretch of   *)
(* code between two awaits on the control store or the tenant store         *)

NoResponse == [status |-> 0, body |-> Null]
\* utils.js sendJson: context.res
sendJson(status, body) == [status |-> status, body |-> body]
Failure == Obj("success" :> S(<<"f", "a", "l", "s", "e">>))
JsTrue == S(<<"t", "r", "u", "e">>)

\* the handler's local variables; req is kept for a request that passed the
\* guard, probe is what became of the diagnostics probe
IdleSlot ==
    [pc |-> "idle", req |-> Null, orgId |-> <<>>, appKey |-> <<>>,
     tenantSupabaseUrl |-> <<>>, currentMetadata |-> Null,
     encryptedPayload |-> Null, existingOrg |-> NoRow, probe |-> "none",
     diagnostics |-> Null, res |-> NoResponse]

Answered(slot, status, body) == [slot EXCEPT !.pc = "done", !.res = sendJson(status, body)]

\* lines 23-103 with tenant-context.js lines 32-49: method, configuration and
\* payload checks, and the guard up to its first await; a request that gets as
\* far as auth.getUser waits at "auth"
receive(req) ==
    LET slot == IdleSlot
        encryptionSecret == req.env.APP_ORG_CREDENTIALS_ENCRYPTION_KEY
        orgId == trimmedString(req.body.orgId)
        appKey == trimmedString(req.body.appKey)
        tenantSupabaseUrl == trimmedString(req.body.supabaseUrl)
        controlContext == loadControlContext(req, orgId, ADMIN, req.env, Memberships, FALSE)
    IN IF req.method /= "POST" THEN Answered(slot, 405, Failure)
       ELSE IF ~Truthy(req.env.SUPABASE_URL) \/ ~Truthy(req.env.SUPABASE_SERVICE_ROLE_KEY)
            THEN Answered(slot, 500, Failure)
       ELSE IF ~Truthy(encryptionSecret) THEN Answered(slot, 500, Failure)
       ELSE IF orgId = <<>> \/ appKey = <<>> \/ tenantSupabaseUrl = <<>>
            THEN Answered(slot, 400, Failure)
       ELSE IF controlContext.calls = <<>> THEN Answered(slot, controlContext.status, Failure)
       ELSE [slot EXCEPT !.pc = "auth", !.req = req, !.orgId = orgId, !.appKey = appKey,
                         !.tenantSupabaseUrl = tenantSupabaseUrl,
                         !.currentMetadata = req.body.currentMetadata]

\* tenant-context.js lines 49-61 with handler lines 105-118: auth.getUser has
\* answered; the guard throws or goes on to read org_memberships
authenticate(slot) ==
    LET controlContext ==
            loadControlContext(slot.req, slot.orgId, ADMIN, slot.req.env, Memberships, FALSE)
    IN IF controlContext.calls = <<"auth.getUser">>
       THEN Answered(IdleSlot, controlContext.status, Failure)
       ELSE [slot EXCEPT !.pc = "membership"]

\* tenant-context.js lines 56-78 with handler lines 105-137: the membership
\* row has been read (org_memberships as it is at this step), the rest of the
\* guard, the encryption
readMembership(slot, membershipError, iv) ==
    LET encryptionSecret == slot.req.env.APP_ORG_CREDENTIALS_ENCRYPTION_KEY
        controlContext ==
            loadControlContext(slot.req, slot.orgId, ADMIN, slot.req.env, Memberships,
                               membershipError)
        encryptedPayload == encryptValue(slot.appKey, encryptionSecret, iv)
    IN IF ~controlContext.ok THEN Answered(IdleSlot, controlContext.status, Failure)
       ELSE IF encryptedPayload = Thrown THEN Answered(IdleSlot, 500, Failure)
       ELSE [slot EXCEPT !.pc = "read", !.encryptedPayload = encryptedPayload]

\* adminClient.from('organizations').update({ dedicated_key_encrypted }).eq('id', orgId)
updateOrganization(orgs, orgId, value) ==
    IF orgId \in DOMAIN orgs
    THEN [orgs EXCEPT ![orgId] = [dedicated_key_encrypted |-> value]]
    ELSE orgs

\* adminClient.from('org_settings').update({ metadata }).eq('org_id', orgId)
updateSettingsMetadata(settings, orgId, metadata) ==
    IF orgId \in DOMAIN settings
    THEN [settings EXCEPT ![orgId].metadata = metadata]
    ELSE settings

\* the handler is invoked with a request and runs to its first await
Receive(r) ==
    /\ reqs[r].pc = "idle"
    /\ \E req \in StoreRequests : reqs' = [reqs EXCEPT ![r] = receive(req)]
    /\ UNCHANGED <<organizations, org_settings, hist, fn, wiz>>

Authenticate(r) ==
    /\ reqs[r].pc = "auth"
    /\ reqs' = [reqs EXCEPT ![r] = authenticate(@)]
    /\ UNCHANGED <<organizations, org_settings, hist, fn, wiz>>

\* ivs: the nonces crypto.randomBytes may draw
ReadMembershipWith(r, ivs) ==
    /\ reqs[r].pc = "membership"
    /\ \E membershipError \in BOOLEAN, iv \in ivs :
          reqs' = [reqs EXCEPT ![r] = readMembership(@, membershipError, iv)]
    /\ UNCHANGED <<organizations, org_settings, hist, fn, wiz>>

ReadMembership(r) == ReadMembershipWith(r, IVs)

\* history: a control-store call of a request came back with an error
Faulted(error) == [hist EXCEPT !.fault = @ \/ error]

\* lines 132-155
ReadOrganization(r) ==
    /\ reqs[r].pc = "read"
    /\ \E readOrgError \in BOOLEAN :
          LET existingOrg == rowOf(organizations, reqs[r].orgId)
          IN /\ reqs' = [reqs EXCEPT ![r] =
                    IF readOrgError THEN Answered(@, 500, Failure)
                    ELSE IF existingOrg = NoRow THEN Answered(@, 404, Failure)
                    ELSE [@ EXCEPT !.pc = "store", !.existingOrg = existingOrg]]
             /\ hist' = Faulted(readOrgError)
    /\ UNCHANGED <<organizations, org_settings, fn, wiz>>

\* lines 157-170
StoreKey(r) ==
    /\ reqs[r].pc = "store"
    /\ \E storeKeyError \in BOOLEAN :
          IF storeKeyError
          THEN /\ reqs' = [reqs EXCEPT ![r] = Answered(@, 500, Failure)]
               /\ UNCHANGED organizations
               /\ hist' = Faulted(TRUE)
          ELSE /\ organizations' =
                     updateOrganization(organizations, reqs[r].orgId, reqs[r].encryptedPayload)
               /\ reqs' = [reqs EXCEPT ![r].pc = "probe"]
               /\ UNCHANGED hist
    /\ UNCHANGED <<org_settings, fn, wiz>>

\* Probe without the throw on diagnosticsError: the handler goes on to the metadata
ProbeIgnoringError(r) ==
    /\ reqs[r].pc = "probe"
    /\ \E result \in ProbeResults(reqs[r].tenantSupabaseUrl, reqs[r].appKey) :
          reqs' = [reqs EXCEPT ![r] =
              [@ EXCEPT !.pc = "meta",
                        !.probe = IF Truthy(result.error) THEN "failed" ELSE "ok",
                        !.diagnostics = result.data]]
    /\ UNCHANGED <<organizations, org_settings, hist, fn, wiz>>

\* lines 172-192: the diagnostics probe with the submitted key
Probe(r) ==
    /\ reqs[r].pc = "probe"
    /\ \E result \in ProbeResults(reqs[r].tenantSupabaseUrl, reqs[r].appKey) :
          reqs' = [reqs EXCEPT ![r] =
              IF Truthy(result.error)
              THEN [@ EXCEPT !.pc = "revert", !.probe = "failed", !.diagnostics = result.error]
              ELSE [@ EXCEPT !.pc = "meta", !.probe = "ok", !.diagnostics = result.data]]
    /\ UNCHANGED <<organizations, org_settings, hist, fn, wiz>>

\* lines 194-212: the compensating write and the 400 answer
Revert(r) ==
    /\ reqs[r].pc = "revert"
    /\ \E revertError \in BOOLEAN :
          /\ organizations' =
                 IF revertError THEN organizations
                 ELSE updateOrganization(organizations, reqs[r].orgId,
                                         reqs[r].existingOrg.dedicated_key_encrypted)
          /\ hist' = Faulted(revertError)
    /\ reqs' = [reqs EXCEPT ![r] =
           Answered(@, 400, Obj(("success" :> Failure.f["success"])
                                 @@ ("details" :> reqs[r].diagnostics)))]
    /\ UNCHANGED <<org_settings, fn, wiz>>

\* UpdateMetadata restoring the previous ciphertext when the update fails
UpdateMetadataReverting(r) ==
    /\ reqs[r].pc = "meta"
    /\ LET nextMetadata == buildStoredMetadata(reqs[r].currentMetadata)
       IN \E metadataError \in BOOLEAN :
             IF metadataError
             THEN /\ reqs' = [reqs EXCEPT ![r] = Answered(@, 500, Failure)]
                  /\ hist' = Faulted(TRUE)
                  /\ organizations' =
                         updateOrganization(organizations, reqs[r].orgId,
                                            reqs[r].existingOrg.dedicated_key_encrypted)
                  /\ UNCHANGED org_settings
             ELSE /\ org_settings' =
                        updateSettingsMetadata(org_settings, reqs[r].orgId, nextMetadata)
                  /\ reqs' = [reqs EXCEPT ![r] =
                         Answered(@, 200, Obj(("success" :> JsTrue)
                                               @@ ("metadata" :> nextMetadata)
                                               @@ ("diagnostics" :> reqs[r].diagnostics)))]
                  /\ hist' = [hist EXCEPT !.lastSuccess[reqs[r].orgId] = reqs[r].encryptedPayload]
                  /\ UNCHANGED organizations
    /\ UNCHANGED <<fn, wiz>>

\* lines 215-238: the metadata marker and the 200 answer
UpdateMetadata(r) ==
    /\ reqs[r].pc = "meta"
    /\ LET nextMetadata == buildStoredMetadata(reqs[r].currentMetadata)
       IN \E metadataError \in BOOLEAN :
             IF metadataError
             THEN /\ reqs' = [reqs EXCEPT ![r] = Answered(@, 500, Failure)]
                  /\ hist' = Faulted(TRUE)
                  /\ UNCHANGED org_settings
             ELSE /\ org_settings' =
                        updateSettingsMetadata(org_settings, reqs[r].orgId, nextMetadata)
                  /\ reqs' = [reqs EXCEPT ![r] =
                         Answered(@, 200, Obj(("success" :> JsTrue)
                                               @@ ("metadata" :> nextMetadata)
                                               @@ ("diagnostics" :> reqs[r].diagnostics)))]
                  /\ hist' = [hist EXCEPT !.lastSuccess[reqs[r].orgId] = reqs[r].encryptedPayload]
    /\ UNCHANGED <<organizations, fn, wiz>>

-----------------------------------------------------------------------------
(* The specifications *)

NoCall == [op |-> "none"]
None == [t |-> "none"]
NoWizard == [page |-> "closed"]

InitialKeys == { Null, encryptValue(k0, ServerSecret, [i \in 1..IvBytes |-> 99]) }

Init ==
    /\ \E c0 \in InitialKeys :
          /\ organizations = (o1 :> [dedicated_key_encrypted |-> c0])
                               @@ (o2 :> [dedicated_key_encrypted |-> Null])
          /\ hist = [original |-> (o1 :> c0) @@ (o2 :> Null),
                     lastSuccess |-> (o1 :> None) @@ (o2 :> None) @@ (o9 :> None),
                     fault |-> FALSE]
    /\ org_settings = (o1 :> [supabase_url |-> S(tenantUrl), metadata |-> Null])
    /\ reqs = [r \in Slots |-> IdleSlot]
    /\ fn = NoCall
    /\ wiz = NoWizard

\* two invocations of the handler, arriving at any time: they may overlap
Next ==
    \E r \in Slots :
        \/ Receive(r)
        \/ Authenticate(r)
        \/ ReadMembership(r)
        \/ ReadOrganization(r)
        \/ StoreKey(r)
        \/ Probe(r)
        \/ Revert(r)
        \/ UpdateMetadata(r)

Spec == Init /\ [][Next]_vars

\* the same two invocations, the second arriving after the first has answered
InFlight(r) == reqs[r].pc \notin {"idle", "done"}

NextSeq ==
    \E r \in Slots :
        \/ (Receive(r) /\ \A other \in Slots : ~InFlight(other))
        \/ Authenticate(r)
        \/ ReadMembership(r)
        \/ ReadOrganization(r)
        \/ StoreKey(r)
        \/ Probe(r)
        \/ Revert(r)
        \/ UpdateMetadata(r)

SpecSeq == Init /\ [][NextSeq]_vars

-----------------------------------------------------------------------------
(* The guard and the resolver called on their own: one call per behaviour,   *)
(* its arguments and its result kept in fn                                   *)

\* Authorization headers, each with what it is: kind says how the header is to
\* be read (absent, malformed, rejected: a well-formed header whose token the
\* identity service does not know, valid), user whose token it carries
HeaderCase(headers, kind, user) == [headers |-> headers, kind |-> kind, user |-> user]
HeaderCases ==
    { HeaderCase(Headers(Null, Null), "absent", NoUser),
      HeaderCase(Headers(S(<<>>), Null), "absent", NoUser),
      HeaderCase(Headers(Null, S(<<"B", "a", "s", "i", "c", " ", "t", "1">>)), "malformed", NoUser),
      HeaderCase(Headers(S(<<"B", "e", "a", "r", "e", "r", "t", "1">>), Null), "malformed", NoUser),
      HeaderCase(Headers(S(<<"B", "e", "a", "r", "e", "r">>), Null), "malformed", NoUser),
      HeaderCase(Headers(S(<<"B", "e", "a", "r", "e", "r", " ">>), Null), "malformed", NoUser),
      HeaderCase(Headers(S(<<"B", "e", "a", "r", "e", "r", " ", " ", "\t">>), Null),
                 "malformed", NoUser),
      HeaderCase(Headers(S(<<" ", "B", "e", "a", "r", "e", "r", " ", "t", "1">>), Null),
                 "malformed", NoUser),
      HeaderCase(Headers(S(<<"B", "a", "s", "i", "c", " ", "x">>), Bearer(<<"t", "1">>)),
                 "malformed", NoUser),
      HeaderCase(Headers(Bearer(<<"t", "x">>), Null), "rejected", NoUser),
      HeaderCase(Headers(Bearer(<<"t", "1", " ", "t", "2">>), Null), "rejected", NoUser),
      HeaderCase(Headers(Bearer(<<"t", "1">>), Null), "valid", "u1"),
      HeaderCase(Headers(S(<<"b", "e", "a", "r", "e", "r", " ", "\t", " ", "t", "2", " ">>), Null),
                 "valid", "u2"),
      HeaderCase(Headers(Null, S(<<"B", "E", "A", "R", "E", "R", " ", "t", "3">>)), "valid", "u3"),
      HeaderCase(Headers(S(<<>>), Bearer(<<"t", "6">>)), "valid", "u6") }

\* org_memberships with the given role stored for user u1 in o1
TableWith(role) == (<<o1, "u1">> :> role) @@ Memberships

RequiredRoles == { MEMBER, ADMIN, OWNER }

CallEnsureRole ==
    /\ fn = NoCall
    /\ \E currentRole \in StoredRoles, required \in RequiredRoles :
          fn' = [op |-> "ensureRole", currentRole |-> currentRole, required |-> required,
                 result |-> ensureRole(currentRole, required)]
    /\ UNCHANGED <<organizations, org_settings, reqs, hist, wiz>>

CallNormaliseRole ==
    /\ fn = NoCall
    /\ \E role \in StoredRoles :
          fn' = [op |-> "normaliseRole", role |-> role, result |-> normaliseRole(role)]
    /\ UNCHANGED <<organizations, org_settings, reqs, hist, wiz>>

\* A call of the guard or the resolver is kept in fn while it waits for the
\* control store: at counts the awaits passed so far plus one (1 auth.getUser,
\* 2 org_memberships, 3 org_settings, 4 organizations); memberships, settings
\* and orgs are the tables as they were when last looked at, each table being
\* read only at its own await; io are the errors the queries came back with.
NoControlError == [membershipError |-> FALSE, settingsError |-> FALSE, organizationError |-> FALSE]

\* the calls loadControlContext makes on the control store before it returns or throws
controlAwaits(p) ==
    Len(loadControlContext([headers |-> p.case.headers], p.orgId, p.requireRole, p.env,
                           p.memberships, p.io.membershipError).calls)

controlResult(p) ==
    [op |-> "loadControlContext", case |-> p.case, orgId |-> p.orgId,
     requireRole |-> p.requireRole, env |-> p.env, memberships |-> p.memberships,
     membershipError |-> p.io.membershipError,
     result |-> loadControlContext([headers |-> p.case.headers], p.orgId, p.requireRole,
                                   p.env, p.memberships, p.io.membershipError)]

\* tenant-context.js lines 32-47: the guard up to its first await
CallLoadControlContext ==
    /\ fn = NoCall
    /\ \E case \in HeaderCases, orgId \in {<<>>, o1, o2}, requireRole \in RequiredRoles,
          env \in {EnvComplete, EnvNoUrl}, role \in StoredRoles :
          LET p == [op |-> "await", call |-> "loadControlContext", at |-> 1, case |-> case,
                    orgId |-> orgId, requireRole |-> requireRole, env |-> env,
                    memberships |-> TableWith(role), io |-> NoControlError]
          IN fn' = IF controlAwaits(p) = 0 THEN controlResult(p) ELSE p
    /\ UNCHANGED <<organizations, org_settings, reqs, hist, wiz>>

\* control-store contents for the resolver: the organization with no key, with
\* a key encrypted under the server secret, with one encrypted under another
\* secret; the settings row with and without an address, and no row
OtherSecret == S(<<"r", "o", "t", "a", "t", "e", "d">>)
FixedIv == [i \in 1..IvBytes |-> 99]
\* what organizations.dedicated_key_encrypted may hold, each with what it is:
\* absent, sealed under the server secret, sealed under another secret
\* (foreign), cut below the shortest payload (short), sealed under the server
\* secret and then changed in one bit of the tag (tampered)
ResolverCredentials ==
    { [kind |-> "absent", blob |-> Null],
      [kind |-> "sealed", blob |-> encryptValue(k0, ServerSecret, FixedIv)],
      [kind |-> "foreign", blob |-> encryptValue(k0, OtherSecret, FixedIv)],
      [kind |-> "short",
       blob |-> Base64String(SubSeq(encryptValue(k0, ServerSecret, FixedIv).b64, 1,
                                    MinPayloadBytes - 1))],
      [kind |-> "tampered",
       blob |-> Base64String([encryptValue(k0, ServerSecret, FixedIv).b64
                                 EXCEPT ![IvBytes + 1].xor = 1])] }
ResolverOrganizations ==
    { (o1 :> [dedicated_key_encrypted |-> c.blob]) : c \in ResolverCredentials }
ResolverSettings ==
    { (o1 :> [supabase_url |-> S(tenantUrl), metadata |-> Null]),
      (o1 :> [supabase_url |-> Null, metadata |-> Null]),
      [o \in {} |-> Null] }
\* roles org_memberships may hold for the caller of the resolver
ResolverRoles == { MEMBER, S(<<"A", "d", "m", "i", "n">>) }

\* the calls loadTenantContext makes on the control store before it returns or throws
tenantAwaits(p) ==
    LET row == rowOf(p.settings, p.orgId)
    IN IF ~Truthy(p.env.APP_ORG_CREDENTIALS_ENCRYPTION_KEY) THEN 0
       ELSE IF ~controlResult(p).result.ok THEN controlAwaits(p)
       ELSE IF p.io.settingsError \/ row = NoRow \/ ~Truthy(row.supabase_url) THEN 3
       ELSE 4

tenantResult(p) ==
    [op |-> "loadTenantContext", case |-> p.case, orgId |-> p.orgId,
     requireRole |-> p.requireRole, env |-> p.env, memberships |-> p.memberships,
     membershipError |-> p.io.membershipError, io |-> p.io, credential |-> p.credential,
     orgs |-> p.orgs, settings |-> p.settings,
     result |-> loadTenantContext([headers |-> p.case.headers], p.orgId, p.requireRole,
                                  p.env, p.io, p.memberships, p.orgs, p.settings)]

\* tenant-context.js lines 80-86 and 32-47: the resolver up to its first await
CallLoadTenantContext ==
    /\ fn = NoCall
    /\ \E case \in HeaderCases, orgId \in {<<>>, o1}, requireRole \in {MEMBER, ADMIN},
          env \in {EnvComplete, EnvNoSecret}, role \in ResolverRoles,
          credential \in ResolverCredentials, settings \in ResolverSettings :
          LET p == [op |-> "await", call |-> "loadTenantContext", at |-> 1, case |-> case,
                    orgId |-> orgId, requireRole |-> requireRole, env |-> env,
                    memberships |-> TableWith(role), io |-> NoControlError,
                    credential |-> credential.kind,
                    orgs |-> (o1 :> [dedicated_key_encrypted |-> credential.blob]),
                    settings |-> settings]
          IN fn' = IF tenantAwaits(p) = 0 THEN tenantResult(p) ELSE p
    /\ UNCHANGED <<organizations, org_settings, reqs, hist, wiz>>

\* the await at which the call kept in p ends, and the call after its await
\* number at has settled: returned, thrown, or waiting at the next one
awaitsOf(p) == IF p.call = "loadControlContext" THEN controlAwaits(p) ELSE tenantAwaits(p)
settles(p) ==
    IF awaitsOf(p) > p.at THEN [p EXCEPT !.at = @ + 1]
    ELSE IF p.call = "loadControlContext" THEN controlResult(p)
    ELSE tenantResult(p)

\* tenant-context.js lines 49-52: adminClient.auth.getUser has answered
GetUserSettles ==
    /\ fn.op = "await" /\ fn.at = 1
    /\ fn' = settles(fn)
    /\ UNCHANGED <<organizations, org_settings, reqs, hist, wiz>>

\* tenant-context.js lines 56-78: the org_memberships row, read from the table
\* as it is at this await
MembershipsSettle ==
    /\ fn.op = "await" /\ fn.at = 2
    /\ \E role \in IF fn.call = "loadControlContext" THEN StoredRoles ELSE ResolverRoles,
          membershipError \in BOOLEAN :
          fn' = settles([fn EXCEPT !.memberships = TableWith(role),
                                   !.io.membershipError = membershipError])
    /\ UNCHANGED <<organizations, org_settings, reqs, hist, wiz>>

\* tenant-context.js lines 89-101: the org_settings row, read at this await
SettingsSettle ==
    /\ fn.op = "await" /\ fn.at = 3
    /\ \E settings \in ResolverSettings, settingsError \in BOOLEAN :
          fn' = settles([fn EXCEPT !.settings = settings, !.io.settingsError = settingsError])
    /\ UNCHANGED <<organizations, org_settings, reqs, hist, wiz>>

\* tenant-context.js lines 103-138: the organizations row, read at this await
\* (the store handler may have written it since the call began), and the
\* decryption of the key
OrganizationsSettle ==
    /\ fn.op = "await" /\ fn.at = 4
    /\ \E credential \in ResolverCredentials, organizationError \in BOOLEAN :
          fn' = settles([fn EXCEPT !.credential = credential.kind,
                                   !.orgs = (o1 :> [dedicated_key_encrypted |-> credential.blob]),
                                   !.io.organizationError = organizationError])
    /\ UNCHANGED <<organizations, org_settings, reqs, hist, wiz>>

NextGuard ==
    \/ CallEnsureRole
    \/ CallNormaliseRole
    \/ CallLoadControlContext
    \/ CallLoadTenantContext
    \/ GetUserSettles
    \/ MembershipsSettle
    \/ SettingsSettle
    \/ OrganizationsSettle

SpecGuard == Init /\ [][NextGuard]_vars

-----------------------------------------------------------------------------
(* The cipher called on its own: one call per behaviour, kept in fn *)

\* key material, each with the name of the 32-byte key it stands for: two
\* passphrases (hashed), a one-character passphrase, 32 zero bytes in base64
\* with and without padding (the same key), the same base64 after a high
\* surrogate (read as "=": no bytes, so the text is hashed), a lone surrogate
\* and U+FFFD (hashed from the same UTF-8 bytes: the same key)
ZeroKeyBase64 == [i \in 1..43 |-> "A"]
SecretCases ==
    { [secret |-> ServerSecret, key |-> "sha-passphrase"],
      [secret |-> OtherSecret, key |-> "sha-rotated"],
      [secret |-> S(<<"x">>), key |-> "sha-x"],
      [secret |-> S(ZeroKeyBase64 \o <<"=">>), key |-> "zero"],
      [secret |-> S(ZeroKeyBase64), key |-> "zero"],
      [secret |-> S(<<"uD83D">> \o ZeroKeyBase64), key |-> "sha-cut"],
      [secret |-> S(<<"uDE00">>), key |-> "sha-replacement"],
      [secret |-> S(<<"uFFFD">>), key |-> "sha-replacement"] }

\* secrets to encrypt, each with whether it is well-formed UTF-16 (no
\* surrogate without its other half)
Plaintexts ==
    { [chars |-> <<>>, wellFormed |-> TRUE],
      [chars |-> k1, wellFormed |-> TRUE],
      [chars |-> <<" ", "a", ".", "B", "-", "9", "_", "/", "+", "=", "\n">>, wellFormed |-> TRUE],
      [chars |-> <<"k", "u00E9", "y">>, wellFormed |-> TRUE],
      [chars |-> <<"u05E9", "u20AC">>, wellFormed |-> TRUE],
      [chars |-> <<"u", "uD83D", "uDE00">>, wellFormed |-> TRUE],
      [chars |-> <<"uFFFD", "1">>, wellFormed |-> TRUE],
      [chars |-> <<"k", "uD83D">>, wellFormed |-> FALSE],
      [chars |-> <<"uDE00", "k">>, wellFormed |-> FALSE],
      [chars |-> <<"uDE00", "uD83D">>, wellFormed |-> FALSE],
      [chars |-> <<"uD83D", "k", "uDE00">>, wellFormed |-> FALSE] }

CallRoundTrip ==
    /\ fn = NoCall
    /\ \E p \in Plaintexts, k \in SecretCases, iv \in IVs :
          LET payload == encryptValue(p.chars, k.secret, iv)
          IN fn' = [op |-> "roundTrip", value |-> p, secret |-> k, iv |-> iv,
                    payload |-> payload, result |-> decryptValue(payload, k.secret)]
    /\ UNCHANGED <<organizations, org_settings, reqs, hist, wiz>>

\* what may happen to a payload between encryptValue and decryptValue
truncatePayload(payload, n) == Base64String(SubSeq(payload.b64, 1, n))
flipPayloadBit(payload, at, mask) ==
    Base64String(
        IF at <= IvBytes THEN [payload.b64 EXCEPT ![at] = flipBit(@, mask)]
        ELSE IF at <= MinPayloadBytes THEN [payload.b64 EXCEPT ![at].xor = flipBit(@, mask)]
        ELSE [payload.b64 EXCEPT ![at].plain = flipBit(@, mask)])

PayloadEdits(payload) ==
    { [kind |-> "intact", at |-> 0, mask |-> 0] }
      \cup { [kind |-> "truncate", at |-> n, mask |-> 0] : n \in 0..(Len(payload.b64) - 1) }
      \cup { [kind |-> "flip", at |-> i, mask |-> m] :
                i \in 1..Len(payload.b64), m \in {1, 128} }

editPayload(payload, edit) ==
    CASE edit.kind = "intact" -> payload
      [] edit.kind = "truncate" -> truncatePayload(payload, edit.at)
      [] edit.kind = "flip" -> flipPayloadBit(payload, edit.at, edit.mask)

CallDecryptValue ==
    /\ fn = NoCall
    /\ \E p \in Plaintexts, sealedWith \in SecretCases, openedWith \in SecretCases :
          /\ Len(p.chars) <= 3
          /\ LET sealed == encryptValue(p.chars, sealedWith.secret, FixedIv)
             IN \E edit \in PayloadEdits(sealed) :
                   LET payload == editPayload(sealed, edit)
                   IN fn' = [op |-> "decryptValue", value |-> p, sealedWith |-> sealedWith,
                             openedWith |-> openedWith, edit |-> edit, payload |-> payload,
                             result |-> decryptValue(payload, openedWith.secret)]
    /\ UNCHANGED <<organizations, org_settings, reqs, hist, wiz>>

NextCipher ==
    \/ CallRoundTrip
    \/ CallDecryptValue

SpecCipher == Init /\ [][NextCipher]_vars

-----------------------------------------------------------------------------
(* The metadata functions called on their own: one call per behaviour *)

Pending == S(<<"p", "e", "n", "d", "i", "n", "g">>)
Blank == S(<<" ", "\t">>)
Absent == [t |-> "absent"]   \* a key the document does not have

\* values of metadata.connections and of metadata.credentials
ConnectionsValues ==
    { Absent, Null, S(<<"x">>), Arr, Obj(EmptyFields),
      Obj("tuttiud" :> Connected),
      Obj(("tuttiud" :> Pending) @@ ("other" :> Connected)),
      Obj(("tuttiud" :> Arr) @@ ("other" :> Obj("a" :> Null))) }
CredentialsValues ==
    { Absent, Null, S(<<"x">>), Arr, Obj(EmptyFields),
      Obj("tuttiudAppJwt" :> STORED),
      Obj(("tuttiudAppJwt" :> STORED) @@ ("other" :> S(<<"x">>))),
      Obj(("tuttiudAppJwt" :> Blank) @@ ("other" :> Arr)),
      Obj("tuttiudAppJwt" :> Arr),
      Obj("tuttiudAppJwt" :> Null) }
ThemeValues == { Absent, S(<<"d", "a", "r", "k">>), Obj("a" :> Arr) }

\* a document with the given values under theme, connections and credentials
documentOf(theme, connections, credentials) ==
    LET given == ("theme" :> theme) @@ ("connections" :> connections)
                    @@ ("credentials" :> credentials)
        present == { k \in DOMAIN given : given[k] /= Absent }
    IN Obj([k \in present |-> given[k]])

MetadataDocuments ==
    { Null, Arr, S(<<"x">>) }
      \cup { documentOf(theme, connections, credentials) :
                theme \in ThemeValues, connections \in ConnectionsValues,
                credentials \in CredentialsValues }

CallNormaliseMetadata ==
    /\ fn = NoCall
    /\ \E metadata \in MetadataDocuments :
          fn' = [op |-> "normaliseMetadata", metadata |-> metadata,
                 result |-> normaliseMetadata(metadata)]
    /\ UNCHANGED <<organizations, org_settings, reqs, hist, wiz>>

CallNextRaw ==
    /\ fn = NoCall
    /\ \E metadata \in MetadataDocuments, status \in {Connected, Pending} :
          fn' = [op |-> "nextRaw", metadata |-> metadata, status |-> status,
                 result |-> nextRaw(status, metadata)]
    /\ UNCHANGED <<organizations, org_settings, reqs, hist, wiz>>

CallBuildStoredMetadata ==
    /\ fn = NoCall
    /\ \E metadata \in MetadataDocuments :
          fn' = [op |-> "buildStoredMetadata", metadata |-> metadata,
                 result |-> buildStoredMetadata(metadata)]
    /\ UNCHANGED <<organizations, org_settings, reqs, hist, wiz>>

NextMetadata ==
    \/ CallNormaliseMetadata
    \/ CallNextRaw
    \/ CallBuildStoredMetadata

SpecMetadata == Init /\ [][NextMetadata]_vars

-----------------------------------------------------------------------------
(* src/pages/setup-wizard.tsx: the setup wizard page. wiz holds the React   *)
(* state of the page (one field per useState and useRef), its two queries,  *)
(* and the asynchronous calls in flight. A handler or a continuation after  *)
(* an await is one step; the effects that follow its render are part of it. *)

IDLE == "idle"
LOADING == "loading"
SUCCESS == "success"
WARNING == "warning"
ERROR == "error"

WizardOrg == o1
WizardToken == <<"t", "2">>   \* session.access_token: an admin of o1

UncheckedList == [schemaExposed |-> FALSE, scriptExecuted |-> FALSE, keyCaptured |-> FALSE]
\* one invocation of runValidation: where it stands (pc), what its closure
\* captured, the calls it has made and how many requests that took (sent),
\* what its verify call came to and how it ended; answer is the answer of the
\* control store to the call it waits for, on its way to the page (None
\* while the store has not been asked)
NoRun == [pc |-> "none", origin |-> "none", hasDedicatedKeyStored |-> FALSE,
          needsPreparation |-> FALSE, verificationDiagnostics |-> "none", calls |-> {},
          verify |-> "none", ended |-> "never", sent |-> 0, answer |-> None]

\* the page as it mounts: every useState at its initial value, both queries fetching
InitialWizard ==
    [page |-> "open",
     initState |-> IDLE,
     schemaState |-> [status |-> IDLE, exists |-> "null"],
     diagnosticsState |-> [status |-> IDLE, diagnostics |-> "none"],
     refreshToken |-> 0,
     organizationSettings |-> Null,
     connectionUpdateState |-> IDLE,
     needsPreparation |-> FALSE,
     preparationState |-> IDLE,
     preparationChecklist |-> UncheckedList,
     preparationAcknowledged |-> FALSE,
     appKeyInput |-> <<>>,
     appKeyState |-> IDLE,
     validationTrigger |-> "none",
     autoStarts |-> 0,          \* history: runs started by the automatic trigger
     previousContext |-> [orgId |-> <<>>, hasDedicatedKey |-> FALSE, tuttiudStatus |-> Null],
     setupStatusQuery |-> [status |-> "pending", data |-> "undefined", fetching |-> TRUE],
     statusAnswer |-> "none",   \* the answer of setup-status on its way to the page
     settingsQuery |-> [status |-> "pending", data |-> Null, fetching |-> TRUE],
     settingsAnswer |-> None,   \* the org_settings row read for the query, on its way
     loadDeps |-> <<>>,         \* the dependencies the load effect last ran with
     runs |-> <<>>,             \* runValidation invocations in flight: their position and closure
     lastRun |-> NoRun,         \* the invocation that started last
     update |-> <<>>,           \* updateTuttiudConnectionStatus calls in flight: currentMetadata
     save |-> "none",           \* saveTuttiudAppKey in flight
     bootstrap |-> "none",      \* runSchemaBootstrap in flight
     clicks |-> [validate |-> 0, save |-> 0, retry |-> 0, create |-> 0],
     updatesIssued |-> 0]       \* how many times updateTuttiudConnectionStatus was called

\* lines 325-352: what a render derives from the state
tuttiudStatus(w) ==
    IF w.organizationSettings = Null THEN Null
    ELSE w.organizationSettings.metadata.connections["tuttiud"]
hasDedicatedKeyStored(w) == w.setupStatusQuery.data = "true"
hasStoredAppKey(w) ==
    \/ hasDedicatedKeyStored(w)
    \/ /\ w.organizationSettings /= Null
       /\ Truthy(w.organizationSettings.metadata.credentials["tuttiudAppJwt"])
shouldShowPreparationGuide(w) == w.needsPreparation
\* shouldShowAppKeyStep without the test of the stored key
shouldShowAppKeyStepWithStoredKey(w) ==
    ~shouldShowPreparationGuide(w) \/ w.preparationAcknowledged \/ hasStoredAppKey(w)
shouldShowAppKeyStep(w) ==
    /\ ~hasDedicatedKeyStored(w)
    /\ (~shouldShowPreparationGuide(w) \/ w.preparationAcknowledged \/ hasStoredAppKey(w))
showReturningVerification(w) == hasDedicatedKeyStored(w) /\ ~w.needsPreparation
isValidationLoading(w) == w.initState = LOADING
canRequestValidation(w) ==
    /\ w.organizationSettings /= Null
    /\ (hasDedicatedKeyStored(w) \/ ~shouldShowPreparationGuide(w) \/ w.preparationAcknowledged)
    /\ (hasDedicatedKeyStored(w) \/ tuttiudStatus(w) = Connected \/ hasStoredAppKey(w))
\* requiresFullPreparation asking for the three items whatever is stored
requiresFullPreparationAlways(w) == TRUE
requiresFullPreparation(w) == ~hasDedicatedKeyStored(w)
checklistComplete(list, full) ==
    /\ (IF full THEN list.schemaExposed ELSE TRUE)
    /\ list.scriptExecuted
    /\ (IF full THEN list.keyCaptured ELSE TRUE)
isPreparationChecklistComplete(w) ==
    checklistComplete(w.preparationChecklist, requiresFullPreparation(w))
\* lines 1177-1259: the checklist items the preparation guide renders
checklistItemShown(w, item) ==
    /\ shouldShowPreparationGuide(w)
    /\ (item = "scriptExecuted" \/ ~hasDedicatedKeyStored(w) \/ ~w.needsPreparation)

\* lines 354-360
resetPreparationChecklist(w) ==
    [w EXCEPT !.preparationChecklist = UncheckedList, !.preparationAcknowledged = FALSE]
\* lines 405-418
requireManualPreparation(w, status) ==
    [resetPreparationChecklist([w EXCEPT !.needsPreparation = TRUE])
        EXCEPT !.preparationState = status]
\* lines 420-431
markPreparationSatisfied(w) ==
    [w EXCEPT !.needsPreparation = FALSE, !.preparationState = SUCCESS,
              !.preparationAcknowledged = TRUE]

\* setState(previous => previous.status === 'error' ? previous : next)
unlessError(previous, next) == IF previous = ERROR THEN previous ELSE next

\* settings.metadata.credentials.tuttiudAppJwt ?? ''
storedKeyOf(settings) ==
    IF IsString(settings.metadata.credentials["tuttiudAppJwt"])
    THEN settings.metadata.credentials["tuttiudAppJwt"].s ELSE <<>>

\* the dependencies of the load effect that can change
loadDepsOf(w) ==
    <<w.needsPreparation, w.setupStatusQuery.status, w.setupStatusQuery.data,
      w.settingsQuery.status, w.settingsQuery.data>>

\* a load effect that also schedules a check when a key is stored
loadEffectStartingVerify(r, a) ==
    IF r.setupStatusQuery.status = "error" \/ r.settingsQuery.status = "error"
    THEN [a EXCEPT !.organizationSettings = Null, !.initState = ERROR]
    ELSE IF r.setupStatusQuery.status /= "success" \/ r.settingsQuery.status /= "success"
    THEN a
    ELSE LET settings == r.settingsQuery.data
             a1 == [a EXCEPT !.organizationSettings = settings]
         IN IF settings = Null
            THEN [requireManualPreparation(a1, WARNING)
                     EXCEPT !.appKeyInput = <<>>, !.appKeyState = IDLE, !.initState = WARNING]
            ELSE LET hasDedicatedKey == r.setupStatusQuery.data = "true"
                     storedKey == storedKeyOf(settings)
                     status == settings.metadata.connections["tuttiud"]
                     isAlreadyConnected == status = Connected
                     currentContext == [orgId |-> WizardOrg, hasDedicatedKey |-> hasDedicatedKey,
                                        tuttiudStatus |-> status]
                     contextChanged == a.previousContext /= currentContext
                     a2 == [a1 EXCEPT !.previousContext = currentContext]
                 IN IF hasDedicatedKey
                    THEN LET a3 == [a2 EXCEPT !.appKeyInput = <<>>,
                                              !.appKeyState = unlessError(@, SUCCESS)]
                         IN IF ~r.needsPreparation
                            THEN [a3 EXCEPT !.preparationAcknowledged = TRUE,
                                            !.preparationState = unlessError(@, SUCCESS),
                                            !.initState = unlessError(@, IDLE),
                                            !.validationTrigger = IF @ = "none" THEN "auto" ELSE @]
                            ELSE a3
                    ELSE LET a3 == [a2 EXCEPT
                                      !.appKeyInput = storedKey,
                                      !.appKeyState =
                                          unlessError(@, IF storedKey /= <<>> THEN SUCCESS ELSE IDLE)]
                         IN IF isAlreadyConnected
                            THEN [markPreparationSatisfied(a3)
                                     EXCEPT !.initState = SUCCESS,
                                            !.validationTrigger = IF @ = "none" THEN "auto" ELSE @]
                            ELSE IF ~r.needsPreparation \/ contextChanged
                            THEN [requireManualPreparation(a3, IDLE) EXCEPT !.initState = IDLE]
                            ELSE a3

\* lines 447-607: the load effect, run for the render r; a is the state its
\* updates are applied to
loadEffect(r, a) ==
    IF r.setupStatusQuery.status = "error" \/ r.settingsQuery.status = "error"
    THEN [a EXCEPT !.organizationSettings = Null, !.initState = ERROR]
    ELSE IF r.setupStatusQuery.status /= "success" \/ r.settingsQuery.status /= "success"
    THEN a
    ELSE LET settings == r.settingsQuery.data
             a1 == [a EXCEPT !.organizationSettings = settings]
         IN IF settings = Null
            THEN [requireManualPreparation(a1, WARNING)
                     EXCEPT !.appKeyInput = <<>>, !.appKeyState = IDLE, !.initState = WARNING]
            ELSE LET hasDedicatedKey == r.setupStatusQuery.data = "true"
                     storedKey == storedKeyOf(settings)
                     status == settings.metadata.connections["tuttiud"]
                     isAlreadyConnected == status = Connected
                     currentContext == [orgId |-> WizardOrg, hasDedicatedKey |-> hasDedicatedKey,
                                        tuttiudStatus |-> status]
                     contextChanged == a.previousContext /= currentContext
                     a2 == [a1 EXCEPT !.previousContext = currentContext]
                 IN IF hasDedicatedKey
                    THEN LET a3 == [a2 EXCEPT !.appKeyInput = <<>>,
                                              !.appKeyState = unlessError(@, SUCCESS)]
                         IN IF ~r.needsPreparation
                            THEN [a3 EXCEPT !.preparationAcknowledged = TRUE,
                                            !.preparationState = unlessError(@, SUCCESS),
                                            !.initState = unlessError(@, IDLE)]
                            ELSE a3
                    ELSE LET a3 == [a2 EXCEPT
                                      !.appKeyInput = storedKey,
                                      !.appKeyState =
                                          unlessError(@, IF storedKey /= <<>> THEN SUCCESS ELSE IDLE)]
                         IN IF isAlreadyConnected
                            THEN [markPreparationSatisfied(a3)
                                     EXCEPT !.initState = SUCCESS,
                                            !.validationTrigger = IF @ = "none" THEN "auto" ELSE @]
                            ELSE IF ~r.needsPreparation \/ contextChanged
                            THEN [requireManualPreparation(a3, IDLE) EXCEPT !.initState = IDLE]
                            ELSE a3

\* lines 609-627: runValidation up to its first await, called from the render r
startValidation(r, a, origin) ==
    LET run == [pc |-> "settings", origin |-> origin,
                hasDedicatedKeyStored |-> hasDedicatedKeyStored(r),
                needsPreparation |-> r.needsPreparation,
                verificationDiagnostics |-> "none", calls |-> {"settings"},
                verify |-> "none", ended |-> "running", sent |-> 1, answer |-> None]
    IN [a EXCEPT !.initState = LOADING,
                 !.schemaState = [status |-> IDLE, exists |-> "null"],
                 !.diagnosticsState = [status |-> IDLE, diagnostics |-> "none"],
                 !.connectionUpdateState = IDLE,
                 !.runs = Append(@, run),
                 !.lastRun = run,
                 !.autoStarts = IF origin = "auto" /\ @ < a.refreshToken + 2 THEN @ + 1 ELSE @]

\* lines 879-885: the effect that starts a requested validation
triggerEffect(r, a) ==
    IF r.validationTrigger = "none" THEN a
    ELSE startValidation(r, [a EXCEPT !.validationTrigger = "none"], r.validationTrigger)

\* lines 887-899: runConnectionUpdate up to its await, called from the render r
runConnectionUpdate(r, a) ==
    IF r.organizationSettings = Null THEN a
    ELSE [a EXCEPT !.connectionUpdateState = LOADING,
                   !.update = Append(@, [currentMetadata |->
                                             Obj(r.organizationSettings.metadata.raw),
                                         answer |-> "none"]),
                   !.updatesIssued = @ + 1]

\* a commit condition that does not look at the loaded connection status
connectionUpdateDueIgnoringStatus(r) ==
    /\ r.organizationSettings /= Null
    /\ ~r.needsPreparation
    /\ r.initState = SUCCESS
    /\ r.schemaState.status = SUCCESS /\ r.schemaState.exists = "true"
    /\ r.diagnosticsState.status = SUCCESS
    /\ r.connectionUpdateState = IDLE

\* a commit condition that does not look at the diagnostics step
connectionUpdateDueIgnoringDiagnostics(r) ==
    /\ r.organizationSettings /= Null
    /\ tuttiudStatus(r) /= Connected
    /\ ~r.needsPreparation
    /\ r.initState = SUCCESS
    /\ r.schemaState.status = SUCCESS /\ r.schemaState.exists = "true"
    /\ r.diagnosticsState.status \notin {IDLE, LOADING}
    /\ r.connectionUpdateState = IDLE

\* lines 935-954: the condition under which the effect commits the connection
connectionUpdateDue(r) ==
    /\ r.organizationSettings /= Null
    /\ tuttiudStatus(r) /= Connected
    /\ ~r.needsPreparation
    /\ r.initState = SUCCESS
    /\ r.schemaState.status = SUCCESS /\ r.schemaState.exists = "true"
    /\ r.diagnosticsState.status = SUCCESS
    /\ r.connectionUpdateState = IDLE

\* lines 935-967
connectionUpdateEffect(r, a) == IF connectionUpdateDue(r) THEN runConnectionUpdate(r, a) ELSE a

\* the effects of one render, in the order the component declares them
flushEffects(r) ==
    LET a1 == IF loadDepsOf(r) /= r.loadDeps
              THEN loadEffect(r, [r EXCEPT !.loadDeps = loadDepsOf(r)])
              ELSE r
        a2 == triggerEffect(r, a1)
    IN connectionUpdateEffect(r, a2)

\* render and run effects until no effect changes the state
RECURSIVE settle(_)
settle(w) == LET next == flushEffects(w) IN IF next = w THEN w ELSE settle(next)

-----------------------------------------------------------------------------
(* The calls the page makes, and what comes back *)

OK == S(<<"o", "k">>)
DiagnosticsWarning == Obj("status" :> S(<<"w", "a", "r", "n", "i", "n", "g">>))
DiagnosticsError == Obj("status" :> S(<<"e", "r", "r", "o", "r">>))
\* payloads that are an array or not an object: an array, strings, numbers
\* and booleans, the empty string, 0 and false among them
NonObjectPayloads ==
    { Arr, OK, S(<<>>), Number(1), Number(0), Boolean(TRUE), Boolean(FALSE) }
\* what tuttiud.setup_assistant_diagnostics may return as data
DiagnosticsPayloads ==
    { Null, DiagnosticsOk, DiagnosticsWarning, DiagnosticsError,
      Obj("status" :> S(<<"O", "K">>)) } \cup NonObjectPayloads

\* lib/setup-wizard.ts normaliseDiagnosticsPayload: the status of the result
normaliseDiagnosticsPayload(raw) ==
    IF ~Truthy(raw) THEN "ok"
    ELSE IF raw.t /= "obj" THEN "warning"
    ELSE LET statusValue == fieldOr(raw.f, "status", Null)
         IN CASE statusValue = OK -> "ok"
              [] statusValue = DiagnosticsWarning.f["status"] -> "warning"
              [] statusValue = DiagnosticsError.f["status"] -> "error"
              [] OTHER -> "warning"

\* runValidation lines 825-830 and 845-851: the step status of a diagnostics result
severityOf(status) ==
    CASE status = "ok" -> SUCCESS
      [] status = "warning" -> WARNING
      [] OTHER -> ERROR

\* lib/setup-wizard.ts fetchOrganizationSetupSettings: the row as the page holds it
settingsOf(row) ==
    IF row = NoRow THEN Null
    ELSE [supabase_url |-> row.supabase_url, metadata |-> normaliseMetadata(row.metadata)]

\* the request verifyStoredTuttiudSetup sends
VerifyRequest ==
    StoreReq("POST", Headers(Bearer(WizardToken), Null),
             [orgId |-> S(WizardOrg)], EnvComplete)
\* the data of an answer on its way to the page
Answer(data) == [t |-> "data", data |-> data]

\* api/verify-tuttiud-setup/index.js with lib/setup-wizard.ts verifyStoredTuttiudSetup:
\* what the call may come to, "failed" when it throws, the status of the
\* diagnostics otherwise
verifyOutcomesWith(io, orgs, settings) ==
    LET orgId == trimmedString(VerifyRequest.body.orgId)
        tenantContext == loadTenantContext(VerifyRequest, orgId, ADMIN, VerifyRequest.env, io,
                                           Memberships, orgs, settings)
    IN IF VerifyRequest.method /= "POST" \/ ~tenantContext.ok THEN {"failed"}
       ELSE IF tenantAccepts(tenantContext.tenantClient.url.s, tenantContext.tenantClient.key.s)
            THEN {"failed"} \cup { normaliseDiagnosticsPayload(data) : data \in DiagnosticsPayloads }
            ELSE {"failed"}

JsFalse == Failure.f["success"]

\* api/verify-tuttiud-setup/index.js: the answers the handler may give
verifyResponses(req, io, orgs, settings) ==
    LET orgId == trimmedString(req.body.orgId)
        tenantContext ==
            loadTenantContext(req, orgId, ADMIN, req.env, io, Memberships, orgs, settings)
    IN IF req.method /= "POST" THEN { sendJson(405, Failure) }
       ELSE IF ~tenantContext.ok THEN { sendJson(tenantContext.status, Failure) }
       ELSE { IF Truthy(result.error)
              THEN sendJson(400, Obj(("success" :> JsFalse) @@ ("details" :> result.error)))
              ELSE sendJson(200, Obj(("success" :> JsTrue) @@ ("diagnostics" :> result.data)))
              : result \in ProbeResults(tenantContext.tenantClient.url.s,
                                        tenantContext.tenantClient.key.s) }

\* api/setup-status/index.js: the answer of the handler; req.body.orgId
\* stands for req.query.orgId
setupStatusResponse(req, membershipError, organizationError, orgs) ==
    LET orgId == trimmedString(req.body.orgId)
        controlContext ==
            loadControlContext(req, orgId, ADMIN, req.env, Memberships, membershipError)
        organization == rowOf(orgs, orgId)
    IN IF req.method /= "GET" THEN sendJson(405, Failure)
       ELSE IF ~controlContext.ok THEN sendJson(controlContext.status, Failure)
       ELSE IF organizationError THEN sendJson(500, Failure)
       ELSE IF organization = NoRow THEN sendJson(404, Failure)
       ELSE sendJson(200, Obj(("success" :> JsTrue)
                              @@ ("hasDedicatedKey" :>
                                     IF Truthy(organization.dedicated_key_encrypted)
                                     THEN JsTrue ELSE JsFalse)))

StatusRequest ==
    StoreReq("GET", Headers(Bearer(WizardToken), Null), [orgId |-> S(WizardOrg)], EnvComplete)

\* A handler of the gateway between two of its awaits: at is the number of
\* the await it waits at, 0 before it is invoked (for setup-status
\* 1 auth.getUser, 2 org_memberships, 3 organizations; for verify-tuttiud-setup
\* 1 auth.getUser, 2 org_memberships, 3 org_settings, 4 organizations, 5 the
\* diagnostics of the tenant store); io are the errors its reads came back
\* with and settings and orgs the tables as they were when the handler read
\* them, each at its own await.
NoRows == [o \in {} |-> Null]
Waiting(at) ==
    [t |-> "await", at |-> at, io |-> NoControlError, orgs |-> NoRows, settings |-> NoRows]
\* from('org_settings').select('supabase_url')
selectSupabaseUrl(settings) ==
    [o \in DOMAIN settings |-> [supabase_url |-> settings[o].supabase_url, metadata |-> Null]]
\* the call of the guard or of the resolver a handler makes for its request
contextCall(req, p) ==
    [case |-> [headers |-> req.headers], orgId |-> trimmedString(req.body.orgId),
     requireRole |-> ADMIN, env |-> req.env, memberships |-> Memberships, io |-> p.io,
     orgs |-> p.orgs, settings |-> p.settings]

\* api/setup-status/index.js: the awaits the handler reaches before it answers
statusAwaits(p) ==
    IF StatusRequest.method /= "GET" THEN 0
    ELSE IF controlResult(contextCall(StatusRequest, p)).result.ok THEN 3
    ELSE controlAwaits(contextCall(StatusRequest, p))
\* what the await the status handler waits at answers: of the errors and the
\* tables, the one this await reads
statusRead(p, error, orgs) ==
    CASE p.at = 2 -> [p EXCEPT !.io.membershipError = error]
      [] p.at = 3 -> [p EXCEPT !.io.organizationError = error, !.orgs = orgs]
      [] OTHER -> p
\* the response of the status handler that waited as p says
statusResponse(p) ==
    setupStatusResponse(StatusRequest, p.io.membershipError, p.io.organizationError, p.orgs)

\* api/verify-tuttiud-setup/index.js: the awaits the handler reaches before it answers
verifyAwaits(p) ==
    IF VerifyRequest.method /= "POST" THEN 0
    ELSE IF loadTenantContext(VerifyRequest, trimmedString(VerifyRequest.body.orgId), ADMIN,
                              VerifyRequest.env, p.io, Memberships, p.orgs, p.settings).ok
    THEN 5
    ELSE tenantAwaits(contextCall(VerifyRequest, p))
\* what the await the verify handler waits at answers
verifyRead(p, error, orgs, settings) ==
    CASE p.at = 2 -> [p EXCEPT !.io.membershipError = error]
      [] p.at = 3 -> [p EXCEPT !.io.settingsError = error,
                               !.settings = selectSupabaseUrl(settings)]
      [] p.at = 4 -> [p EXCEPT !.io.organizationError = error, !.orgs = orgs]
      [] OTHER -> p
\* the awaits whose answer may be an error of the control store
ReadsOf(p) == IF p.at \in {2, 3, 4} THEN BOOLEAN ELSE {FALSE}

InitializeOutcomes == {"initialized", "refused", "missing-function", "error"}
SchemaOutcomes == {"exists", "absent", "error"}
\* lib/setup-wizard.ts isPostgrestMissingFunction, on the code of the error
MissingFunctionCodes == {"PGRST116", "PGRST202"}
isPostgrestMissingFunction(code) == code \in MissingFunctionCodes
\* what the diagnostics RPC may answer: data, or an error with its code
NoError == "null"
DiagnosticsAnswers ==
    { [data |-> data, error |-> NoError] : data \in DiagnosticsPayloads }
        \cup { [data |-> Null, error |-> code] : code \in MissingFunctionCodes \cup {"42501"} }
\* runDiagnostics treating a missing function like any other failure
runDiagnosticsThrowing(answer) ==
    IF answer.error = NoError THEN normaliseDiagnosticsPayload(answer.data) ELSE "thrown"
\* lib/setup-wizard.ts runDiagnostics: the status of the result, "thrown" when
\* it throws; a missing function is answered as a warning
runDiagnostics(answer) ==
    IF answer.error = NoError THEN normaliseDiagnosticsPayload(answer.data)
    ELSE IF isPostgrestMissingFunction(answer.error) THEN "warning"
    ELSE "thrown"
DiagnosticsOutcomes == { runDiagnostics(answer) : answer \in DiagnosticsAnswers }
BootstrapOutcomes == {"executed", "refused", "thrown"}

-----------------------------------------------------------------------------
(* runValidation after each of its awaits *)

RemoveAt(seq, i) == SubSeq(seq, 1, i - 1) \o SubSeq(seq, i + 1, Len(seq))

\* the invocation i is the one that started last: runs holds the invocations
\* under way in the order they started, and lastRun has returned (pc "none")
\* when it is no longer among them
startedLast(w, i) == i = Len(w.runs) /\ w.lastRun.pc /= "none"
\* the invocation i goes on to its next await
continueRun(w, i, pc) ==
    LET run == [w.runs[i] EXCEPT !.pc = pc, !.calls = @ \cup {pc}, !.sent = @ + 1]
    IN [w EXCEPT !.runs[i] = run, !.lastRun = IF startedLast(w, i) THEN run ELSE @]
\* the invocation i returns
endRun(w, i, ended) ==
    LET run == [w.runs[i] EXCEPT !.pc = "none", !.ended = ended]
    IN [w EXCEPT !.runs = RemoveAt(@, i), !.lastRun = IF startedLast(w, i) THEN run ELSE @]

LoadingSchema == [status |-> LOADING, exists |-> "null"]

\* lines 631-733: from the settings to the verify, initialize or schema call
afterSettings(w, i, settings) ==
    LET run == w.runs[i]
    IN IF settings = Thrown THEN endRun([w EXCEPT !.initState = ERROR], i, "settings-error")
       ELSE LET w1 == [w EXCEPT !.organizationSettings = settings]
            IN IF settings = Null
               THEN endRun([requireManualPreparation(w1, WARNING)
                               EXCEPT !.appKeyState = IDLE, !.initState = WARNING],
                           i, "no-settings")
               ELSE LET storedKey == storedKeyOf(settings)
                        isAlreadyConnected == settings.metadata.connections["tuttiud"] = Connected
                        w2 == IF run.hasDedicatedKeyStored
                              THEN [w1 EXCEPT !.appKeyInput = <<>>,
                                              !.appKeyState = unlessError(@, SUCCESS)]
                              ELSE IF storedKey /= <<>>
                              THEN [w1 EXCEPT !.appKeyInput = storedKey,
                                              !.appKeyState = unlessError(@, SUCCESS)]
                              ELSE [w1 EXCEPT !.appKeyInput = storedKey]
                    IN IF ~run.hasDedicatedKeyStored /\ storedKey = <<>> /\ ~isAlreadyConnected
                       THEN endRun([requireManualPreparation(w2, ERROR)
                                       EXCEPT !.appKeyState = ERROR, !.initState = ERROR],
                                   i, "missing-key")
                       ELSE IF run.hasDedicatedKeyStored /\ ~run.needsPreparation
                       THEN continueRun(w2, i, "verify")
                       ELSE IF isAlreadyConnected
                       THEN continueRun([markPreparationSatisfied(w2)
                                            EXCEPT !.initState = SUCCESS,
                                                   !.schemaState = LoadingSchema],
                                        i, "schema")
                       ELSE continueRun(w2, i, "initialize")

\* afterVerify falling back to the initialize call when the verification fails
afterVerifyFallingBack(w, i, outcome) ==
    IF outcome = "failed"
    THEN continueRun(w, i, "initialize")
    ELSE continueRun([markPreparationSatisfied(w)
                         EXCEPT !.initState = SUCCESS, !.schemaState = LoadingSchema,
                                !.runs[i].verificationDiagnostics = outcome],
                     i, "schema")

\* afterVerify writing the connection document of the page when the
\* verification fails
afterVerifyWriting(w, i, outcome) ==
    IF outcome = "failed"
    THEN runConnectionUpdate(w, endRun([requireManualPreparation(w, ERROR)
                                           EXCEPT !.initState = ERROR],
                                       i, "verify-failed"))
    ELSE continueRun([markPreparationSatisfied(w)
                         EXCEPT !.initState = SUCCESS, !.schemaState = LoadingSchema,
                                !.runs[i].verificationDiagnostics = outcome],
                     i, "schema")

\* lines 698-723 and 794
afterVerify(w, i, outcome) ==
    IF outcome = "failed"
    THEN endRun([requireManualPreparation(w, ERROR) EXCEPT !.initState = ERROR],
                i, "verify-failed")
    ELSE continueRun([markPreparationSatisfied(w)
                         EXCEPT !.initState = SUCCESS, !.schemaState = LoadingSchema,
                                !.runs[i].verificationDiagnostics = outcome],
                     i, "schema")

\* afterInitialize treating a missing function like any other thrown failure
afterInitializeGeneric(w, i, outcome) ==
    CASE outcome = "initialized" ->
           continueRun([markPreparationSatisfied(w)
                           EXCEPT !.initState = SUCCESS, !.schemaState = LoadingSchema],
                       i, "schema")
      [] outcome = "refused" ->
           endRun([requireManualPreparation(w, ERROR) EXCEPT !.initState = ERROR],
                  i, "initialize-refused")
      [] outcome = "missing-function" ->
           endRun([w EXCEPT !.initState = ERROR], i, "initialize-missing")
      [] OTHER -> endRun([w EXCEPT !.initState = ERROR], i, "initialize-error")

\* lines 733-782 and 794
afterInitialize(w, i, outcome) ==
    CASE outcome = "initialized" ->
           continueRun([markPreparationSatisfied(w)
                           EXCEPT !.initState = SUCCESS, !.schemaState = LoadingSchema],
                       i, "schema")
      [] outcome = "refused" ->
           endRun([requireManualPreparation(w, ERROR) EXCEPT !.initState = ERROR],
                  i, "initialize-refused")
      [] outcome = "missing-function" ->
           endRun([requireManualPreparation(w, WARNING) EXCEPT !.initState = WARNING],
                  i, "initialize-missing")
      [] OTHER -> endRun([w EXCEPT !.initState = ERROR], i, "initialize-error")

\* afterSchema calling the diagnostics although the verification brought them
afterSchemaRequerying(w, i, outcome) ==
    CASE outcome = "exists" ->
              continueRun([w EXCEPT !.schemaState = [status |-> SUCCESS, exists |-> "true"],
                                    !.diagnosticsState =
                                        [status |-> LOADING, diagnostics |-> "none"]],
                          i, "diagnostics")
      [] outcome = "absent" ->
              endRun([w EXCEPT !.schemaState = [status |-> WARNING, exists |-> "false"],
                               !.diagnosticsState = [status |-> IDLE, diagnostics |-> "none"]],
                     i, "schema-absent")
      [] OTHER ->
              endRun([w EXCEPT !.schemaState = [status |-> ERROR, exists |-> "null"]],
                     i, "schema-error")

\* afterSchema going on to the diagnostics whatever the schema check answered
afterSchemaUnconditional(w, i, outcome) ==
    LET verificationDiagnostics == w.runs[i].verificationDiagnostics
    IN CASE outcome = "exists" ->
              LET w1 == [w EXCEPT !.schemaState = [status |-> SUCCESS, exists |-> "true"]]
              IN IF verificationDiagnostics /= "none"
                 THEN endRun([w1 EXCEPT !.diagnosticsState =
                                            [status |-> severityOf(verificationDiagnostics),
                                             diagnostics |-> verificationDiagnostics]],
                             i, "diagnostics-reused")
                 ELSE continueRun([w1 EXCEPT !.diagnosticsState =
                                                 [status |-> LOADING, diagnostics |-> "none"]],
                                  i, "diagnostics")
         [] outcome = "absent" ->
              continueRun([w EXCEPT !.schemaState = [status |-> WARNING, exists |-> "false"],
                                    !.diagnosticsState =
                                        [status |-> LOADING, diagnostics |-> "none"]],
                          i, "diagnostics")
         [] OTHER ->
              endRun([w EXCEPT !.schemaState = [status |-> ERROR, exists |-> "null"]],
                     i, "schema-error")

\* lines 797-841
afterSchema(w, i, outcome) ==
    LET verificationDiagnostics == w.runs[i].verificationDiagnostics
    IN CASE outcome = "exists" ->
              LET w1 == [w EXCEPT !.schemaState = [status |-> SUCCESS, exists |-> "true"]]
              IN IF verificationDiagnostics /= "none"
                 THEN endRun([w1 EXCEPT !.diagnosticsState =
                                            [status |-> severityOf(verificationDiagnostics),
                                             diagnostics |-> verificationDiagnostics]],
                             i, "diagnostics-reused")
                 ELSE continueRun([w1 EXCEPT !.diagnosticsState =
                                                 [status |-> LOADING, diagnostics |-> "none"]],
                                  i, "diagnostics")
         [] outcome = "absent" ->
              endRun([w EXCEPT !.schemaState = [status |-> WARNING, exists |-> "false"],
                               !.diagnosticsState = [status |-> IDLE, diagnostics |-> "none"]],
                     i, "schema-absent")
         [] OTHER ->
              endRun([w EXCEPT !.schemaState = [status |-> ERROR, exists |-> "null"]],
                     i, "schema-error")

\* afterDiagnostics calling the diagnostics again when the call throws
afterDiagnosticsRetrying(w, i, outcome) ==
    IF outcome = "thrown"
    THEN continueRun([w EXCEPT !.diagnosticsState = [status |-> ERROR, diagnostics |-> "none"]],
                     i, "diagnostics")
    ELSE endRun([w EXCEPT !.diagnosticsState =
                              [status |-> severityOf(outcome), diagnostics |-> outcome]],
                i, "diagnostics-done")

\* afterDiagnostics re-opening the gate on any result that is not ok
afterDiagnosticsStrict(w, i, outcome) ==
    IF outcome = "thrown"
    THEN endRun([w EXCEPT !.diagnosticsState = [status |-> ERROR, diagnostics |-> "none"]],
                i, "diagnostics-error")
    ELSE IF outcome = "ok"
    THEN endRun([w EXCEPT !.diagnosticsState = [status |-> SUCCESS, diagnostics |-> outcome]],
                i, "diagnostics-done")
    ELSE endRun([requireManualPreparation(w, ERROR)
                    EXCEPT !.diagnosticsState = [status |-> ERROR, diagnostics |-> outcome]],
                i, "diagnostics-done")

\* lines 843-867
afterDiagnostics(w, i, outcome) ==
    IF outcome = "thrown"
    THEN endRun([w EXCEPT !.diagnosticsState = [status |-> ERROR, diagnostics |-> "none"]],
                i, "diagnostics-error")
    ELSE endRun([w EXCEPT !.diagnosticsState =
                              [status |-> severityOf(outcome), diagnostics |-> outcome]],
                i, "diagnostics-done")

-----------------------------------------------------------------------------
(* The setup wizard page: one action per event it handles *)

MaxValidations == 1
MaxRefreshes == 1
MaxSaves == 1
MaxRetries == 1
MaxBootstraps == 1

\* nothing the page started is still in flight
Quiet(w) ==
    /\ w.runs = <<>> /\ w.update = <<>> /\ w.save = "none" /\ w.bootstrap = "none"
    /\ ~w.setupStatusQuery.fetching /\ ~w.settingsQuery.fetching

PendingStatus == [status |-> "pending", data |-> "undefined", fetching |-> TRUE]
PendingSettings == [status |-> "pending", data |-> Null, fetching |-> TRUE]
\* setRefreshToken(value => value + 1): both query keys change
refresh(w) ==
    [w EXCEPT !.refreshToken = @ + 1, !.statusAnswer = "none", !.settingsAnswer = None,
              !.setupStatusQuery = PendingStatus, !.settingsQuery = PendingSettings]

Wizard(next) ==
    /\ wiz.page = "open"
    /\ wiz' = settle(next)
    /\ UNCHANGED <<organizations, org_settings, reqs, hist, fn>>

\* the await of the status handler that statusAnswer names, 0 when the
\* handler has not been invoked
StatusAwaitNames == <<"auth.getUser", "org_memberships", "organizations">>
statusAwaitOf(name) ==
    CASE name = StatusAwaitNames[1] -> 1
      [] name = StatusAwaitNames[2] -> 2
      [] name = StatusAwaitNames[3] -> 3
      [] OTHER -> 0
\* the status handler serving the page after the await it waited at has
\* answered: the await it waits at next, or its answer as fetchSetupStatus
\* takes it (lib/setup-wizard.ts lines 328-340)
statusServed(p) ==
    IF statusAwaits(p) > p.at THEN StatusAwaitNames[p.at + 1]
    ELSE IF statusResponse(p).status /= 200 THEN "failed"
    ELSE IF statusResponse(p).body.f["hasDedicatedKey"] = JsTrue THEN "true"
    ELSE "false"

\* api/setup-status/index.js, one step for each stretch of the handler between
\* two awaits: invoked with the page's request it runs up to auth.getUser
\* (index.js 5-18, tenant-context.js 32-49); auth.getUser answers and it asks
\* for the org_memberships row (49-56); that read answers and it asks for the
\* organizations row (56-78, index.js 19-38); that read answers, from the
\* table as it is at this step, and the handler answers (38-64). statusAnswer
\* holds the await the handler waits at, then its answer under way to the
\* page. Other handlers run between these steps.
StatusHandled ==
    /\ wiz.page = "open" /\ wiz.setupStatusQuery.fetching
    /\ wiz.statusAnswer \notin {"failed", "true", "false"}
    /\ \E p \in { Waiting(statusAwaitOf(wiz.statusAnswer)) } :
          \E error \in ReadsOf(p) :
              wiz' = [wiz EXCEPT !.statusAnswer =
                         statusServed(statusRead(p, error, organizations))]
    /\ UNCHANGED <<organizations, org_settings, reqs, hist, fn>>

\* lib/setup-wizard.ts fetchSetupStatus as the query function: the answer of
\* the handler reaches the page
StatusArrives ==
    /\ wiz.page = "open" /\ wiz.setupStatusQuery.fetching
    /\ wiz.statusAnswer \in {"failed", "true", "false"}
    /\ Wizard([wiz EXCEPT !.statusAnswer = "none",
                          !.setupStatusQuery =
                              IF wiz.statusAnswer = "failed"
                              THEN [@ EXCEPT !.status = "error", !.fetching = FALSE]
                              ELSE [status |-> "success", data |-> wiz.statusAnswer,
                                    fetching |-> FALSE]])

\* what a read of the organization's org_settings row answers
settingsAnswers == { Thrown, Answer(settingsOf(rowOf(org_settings, WizardOrg))) }

\* lib/setup-wizard.ts fetchOrganizationSetupSettings as the query function:
\* the control store reads the row, or fails
SettingsRead ==
    /\ wiz.page = "open" /\ wiz.settingsQuery.fetching /\ wiz.settingsAnswer = None
    /\ \E answer \in settingsAnswers : wiz' = [wiz EXCEPT !.settingsAnswer = answer]
    /\ UNCHANGED <<organizations, org_settings, reqs, hist, fn>>

\* the answer reaches the page
SettingsArrives ==
    /\ wiz.page = "open" /\ wiz.settingsQuery.fetching /\ wiz.settingsAnswer /= None
    /\ Wizard([wiz EXCEPT !.settingsAnswer = None,
                          !.settingsQuery =
                              IF wiz.settingsAnswer = Thrown
                              THEN [@ EXCEPT !.status = "error", !.fetching = FALSE]
                              ELSE [status |-> "success", data |-> wiz.settingsAnswer.data,
                                    fetching |-> FALSE]])

ChecklistItems == {"schemaExposed", "scriptExecuted", "keyCaptured"}

\* updatePreparationChecklist keeping the acknowledgement whatever is cleared
updatePreparationChecklistKeeping(w, key, checked) ==
    [w EXCEPT !.preparationChecklist[key] = checked]

\* lines 373-403
updatePreparationChecklist(w, key, checked) ==
    LET next == [w.preparationChecklist EXCEPT ![key] = checked]
    IN IF checklistComplete(next, requiresFullPreparation(w))
       THEN [w EXCEPT !.preparationChecklist = next]
       ELSE [w EXCEPT !.preparationChecklist = next,
                      !.preparationAcknowledged = FALSE,
                      !.preparationState = IF @ = SUCCESS THEN IDLE ELSE @]

\* the user ticks or clears an item of the preparation checklist
ToggleChecklist(key, checked) ==
    /\ wiz.page = "open" /\ Quiet(wiz)
    /\ checklistItemShown(wiz, key)
    /\ wiz.preparationChecklist[key] /= checked
    /\ Wizard(updatePreparationChecklist(wiz, key, checked))

\* a Continue button that does not look at the checklist
PreparationContinueUnchecked ==
    /\ wiz.page = "open" /\ Quiet(wiz)
    /\ shouldShowPreparationGuide(wiz)
    /\ ~(wiz.preparationAcknowledged /\ wiz.preparationState = SUCCESS)
    /\ Wizard([wiz EXCEPT !.preparationAcknowledged = TRUE, !.preparationState = SUCCESS])

\* lines 1013-1024: handlePreparationContinue
PreparationContinue ==
    /\ wiz.page = "open" /\ Quiet(wiz)
    /\ shouldShowPreparationGuide(wiz)
    /\ isPreparationChecklistComplete(wiz)
    /\ ~(wiz.preparationAcknowledged /\ wiz.preparationState = SUCCESS)
    /\ Wizard([wiz EXCEPT !.preparationAcknowledged = TRUE, !.preparationState = SUCCESS])

\* what the user may paste into the key field
AppKeyInputs == { <<" ">> \o k1 \o <<"\n">>, k2 }

\* line 1302
TypeAppKey ==
    /\ wiz.page = "open" /\ Quiet(wiz)
    /\ shouldShowAppKeyStep(wiz)
    /\ \E value \in AppKeyInputs :
          /\ wiz.appKeyInput /= value
          /\ wiz.clicks.save < MaxSaves
          /\ Wizard([wiz EXCEPT !.appKeyInput = value])

\* lib/setup-wizard.ts saveTuttiudAppKey: the request it sends
SaveRequest(w, trimmedKey) ==
    StoreReq("POST", Headers(Bearer(trim(WizardToken)), Null),
             StoreBody(S(WizardOrg), S(trimmedKey), w.organizationSettings.supabase_url,
                       Obj(w.organizationSettings.metadata.raw)),
             EnvComplete)

\* lines 1026-1068: handleSaveAppKey up to its await; the request leaves for
\* the handler of slot r1 and is under way ("sent") until the handler is invoked
SaveAppKey ==
    /\ wiz.page = "open" /\ Quiet(wiz)
    /\ shouldShowAppKeyStep(wiz)
    /\ wiz.appKeyState /= LOADING /\ wiz.organizationSettings /= Null
    /\ wiz.clicks.save < MaxSaves
    /\ reqs["r1"].pc \in {"idle", "done"}
    /\ LET trimmedKey == trim(wiz.appKeyInput)
           w == [wiz EXCEPT !.clicks.save = @ + 1]
       IN IF trimmedKey = <<>> \/ ~Truthy(wiz.organizationSettings.supabase_url)
          THEN /\ wiz' = settle([w EXCEPT !.appKeyState = ERROR])
               /\ UNCHANGED reqs
          ELSE /\ wiz' = settle([w EXCEPT !.appKeyState = LOADING, !.save = "sent"])
               /\ reqs' = [reqs EXCEPT !["r1"] =
                               [IdleSlot EXCEPT !.pc = "sent",
                                                !.req = SaveRequest(wiz, trimmedKey)]]
    /\ UNCHANGED <<organizations, org_settings, hist, fn>>

\* the handler is invoked with the request of the page and runs to its first await
ReceiveSave ==
    /\ reqs["r1"].pc = "sent"
    /\ reqs' = [reqs EXCEPT !["r1"] = receive(@.req)]
    /\ UNCHANGED <<organizations, org_settings, hist, fn, wiz>>

\* a save answer that also clears the schema and diagnostics steps
SaveResponseResetting ==
    /\ wiz.page = "open" /\ wiz.save = "sent"
    /\ reqs["r1"].pc = "done"
    /\ LET res == reqs["r1"].res
           ok == res.status \in 200..299 /\ fieldOr(res.body.f, "success", Null) = JsTrue
           metadata == normaliseMetadata(fieldOr(res.body.f, "metadata", Null))
           w == [wiz EXCEPT !.save = "none",
                            !.schemaState = [status |-> IDLE, exists |-> "null"],
                            !.diagnosticsState = [status |-> IDLE, diagnostics |-> "none"]]
       IN wiz' = settle(IF ok
                        THEN [w EXCEPT !.organizationSettings =
                                           IF @ = Null THEN @ ELSE [@ EXCEPT !.metadata = metadata],
                                       !.appKeyInput = <<>>,
                                       !.appKeyState = SUCCESS,
                                       !.setupStatusQuery.fetching = TRUE]
                        ELSE [w EXCEPT !.appKeyState = ERROR])
    /\ reqs' = [reqs EXCEPT !["r1"] = IdleSlot]
    /\ UNCHANGED <<organizations, org_settings, hist, fn>>

\* lines 1068-1099: the answer of the handler reaches the page
SaveResponse ==
    /\ wiz.page = "open" /\ wiz.save = "sent"
    /\ reqs["r1"].pc = "done"
    /\ LET res == reqs["r1"].res
           ok == res.status \in 200..299 /\ fieldOr(res.body.f, "success", Null) = JsTrue
           metadata == normaliseMetadata(fieldOr(res.body.f, "metadata", Null))
           w == [wiz EXCEPT !.save = "none"]
       IN wiz' = settle(IF ok
                        THEN [w EXCEPT !.organizationSettings =
                                           IF @ = Null THEN @ ELSE [@ EXCEPT !.metadata = metadata],
                                       !.appKeyInput = <<>>,
                                       !.appKeyState = SUCCESS,
                                       !.setupStatusQuery.fetching = TRUE]
                        ELSE [w EXCEPT !.appKeyState = ERROR])
    /\ reqs' = [reqs EXCEPT !["r1"] = IdleSlot]
    /\ UNCHANGED <<organizations, org_settings, hist, fn>>

\* lines 1102-1133: handleRequestValidation, for a user who clicks the
\* validate button at most max times
RequestValidationUpTo(max) ==
    /\ wiz.page = "open" /\ Quiet(wiz)
    /\ canRequestValidation(wiz) /\ ~isValidationLoading(wiz)
    /\ wiz.clicks.validate < max
    /\ LET w == [wiz EXCEPT !.clicks.validate = @ + 1]
       IN Wizard(IF shouldShowPreparationGuide(wiz) /\ ~wiz.preparationAcknowledged
                 THEN [w EXCEPT !.preparationState = ERROR]
                 ELSE IF shouldShowPreparationGuide(wiz) /\ ~hasStoredAppKey(wiz)
                 THEN [w EXCEPT !.appKeyState = ERROR]
                 ELSE [w EXCEPT !.validationTrigger = "manual"])

RequestValidation == RequestValidationUpTo(MaxValidations)

\* runValidation line 631, fetchOrganizationSetupSettings: the control store
\* reads the row for the run, or fails
ValidationSettingsRead ==
    /\ wiz.page = "open"
    /\ \E i \in 1..Len(wiz.runs) :
          /\ wiz.runs[i].pc = "settings" /\ wiz.runs[i].answer = None
          /\ \E answer \in settingsAnswers : wiz' = [wiz EXCEPT !.runs[i].answer = answer]
    /\ UNCHANGED <<organizations, org_settings, reqs, hist, fn>>

\* runValidation line 631: the settings come back
ValidationSettingsArrive ==
    \E i \in 1..Len(wiz.runs) :
        /\ wiz.runs[i].pc = "settings" /\ wiz.runs[i].answer /= None
        /\ LET answer == wiz.runs[i].answer
           IN Wizard(afterSettings([wiz EXCEPT !.runs[i].answer = None], i,
                                   IF answer = Thrown THEN Thrown ELSE answer.data))

\* the verify handler serving the page after the await it waited at has
\* answered: waiting at its next await, or its answer as
\* verifyStoredTuttiudSetup takes it (lib/setup-wizard.ts lines 486-501)
verifyServed(p) ==
    IF verifyAwaits(p) > p.at THEN { [p EXCEPT !.at = @ + 1] }
    ELSE { Answer(outcome) : outcome \in verifyOutcomesWith(p.io, p.orgs, p.settings) }

\* api/verify-tuttiud-setup/index.js, one step for each stretch of the handler
\* between two awaits: invoked with the request of a run it runs up to
\* auth.getUser (index.js 5-32, tenant-context.js 80-87 and 32-49); auth.getUser
\* answers (49-56); the org_memberships read answers (56-89); the org_settings
\* read answers, from the table as it is at this step (89-103); the
\* organizations read answers, from the table as it is at this step, the key
\* is decrypted and the tenant store is asked (103-138, index.js 33-55); the
\* tenant store answers and the handler answers (55-77). The answer of the run
\* holds the await the handler waits at, then its answer under way to the
\* page. Other handlers run between these steps.
VerifyHandled ==
    /\ wiz.page = "open"
    /\ \E i \in 1..Len(wiz.runs) :
          /\ wiz.runs[i].pc = "verify" /\ wiz.runs[i].answer.t \in {"none", "await"}
          /\ \E p \in { IF wiz.runs[i].answer = None THEN Waiting(0) ELSE wiz.runs[i].answer } :
                \E error \in ReadsOf(p) :
                    \E answer \in verifyServed(verifyRead(p, error, organizations, org_settings)) :
                        wiz' = [wiz EXCEPT !.runs[i].answer = answer]
    /\ UNCHANGED <<organizations, org_settings, reqs, hist, fn>>

\* runValidation line 698: the verification of the stored key comes back
VerifyArrives ==
    \E i \in 1..Len(wiz.runs) :
        /\ wiz.runs[i].pc = "verify" /\ wiz.runs[i].answer.t = "data"
        /\ LET outcome == wiz.runs[i].answer.data
               answered == IF outcome = "failed" THEN "failed" ELSE "passed"
           IN Wizard(afterVerify([wiz EXCEPT !.runs[i].verify = answered,
                                            !.runs[i].answer = None], i, outcome))

\* runValidation line 733
InitializeArrives(outcomes) ==
    \E i \in 1..Len(wiz.runs) :
        /\ wiz.runs[i].pc = "initialize"
        /\ \E outcome \in outcomes : Wizard(afterInitialize(wiz, i, outcome))

\* runValidation line 797
SchemaArrives(outcomes) ==
    \E i \in 1..Len(wiz.runs) :
        /\ wiz.runs[i].pc = "schema"
        /\ \E outcome \in outcomes : Wizard(afterSchema(wiz, i, outcome))

\* runValidation line 844
DiagnosticsArrives(outcomes) ==
    \E i \in 1..Len(wiz.runs) :
        /\ wiz.runs[i].pc = "diagnostics"
        /\ \E outcome \in outcomes : Wizard(afterDiagnostics(wiz, i, outcome))

\* lib/setup-wizard.ts updateTuttiudConnectionStatus: the control store
\* writes the document built from the copy the page held, or fails; each
\* request is on its own, any of those under way may be served next
UpdateWrites ==
    /\ wiz.page = "open"
    /\ \E i \in 1..Len(wiz.update) :
          /\ wiz.update[i].answer = "none"
          /\ \E failed \in BOOLEAN :
                IF failed
                THEN /\ wiz' = [wiz EXCEPT !.update[i].answer = "failed"]
                     /\ UNCHANGED org_settings
                ELSE /\ org_settings' =
                           updateSettingsMetadata(org_settings, WizardOrg,
                               nextRaw(Connected, wiz.update[i].currentMetadata))
                     /\ wiz' = [wiz EXCEPT !.update[i].answer = "written"]
    /\ UNCHANGED <<organizations, reqs, hist, fn>>

\* lines 897-932: runConnectionUpdate after its await, the answer has reached
\* the page
UpdateArrives ==
    /\ wiz.page = "open"
    /\ \E i \in 1..Len(wiz.update) :
          /\ wiz.update[i].answer /= "none"
          /\ LET document == nextRaw(Connected, wiz.update[i].currentMetadata)
                 w == [wiz EXCEPT !.update = RemoveAt(@, i)]
             IN wiz' = settle(IF wiz.update[i].answer = "failed"
                              THEN [w EXCEPT !.connectionUpdateState = ERROR]
                              ELSE [w EXCEPT
                                      !.connectionUpdateState = SUCCESS,
                                      !.organizationSettings =
                                          IF @ = Null THEN @
                                          ELSE [@ EXCEPT !.metadata =
                                                             normaliseMetadata(document)]])
    /\ UNCHANGED <<organizations, org_settings, reqs, hist, fn>>

\* lines 1391 and 1506: the refresh buttons
Refresh ==
    /\ wiz.page = "open" /\ Quiet(wiz)
    /\ wiz.refreshToken < MaxRefreshes
    /\ Wizard(refresh(wiz))

\* lines 1370-1386: the retry button of a failed connection update
Retry ==
    /\ wiz.page = "open" /\ Quiet(wiz)
    /\ wiz.connectionUpdateState = ERROR
    /\ wiz.clicks.retry < MaxRetries
    /\ Wizard(runConnectionUpdate(wiz, [wiz EXCEPT !.clicks.retry = @ + 1]))

\* lines 969-974: handleCreateSchema up to the request
CreateSchema ==
    /\ wiz.page = "open" /\ Quiet(wiz)
    /\ wiz.schemaState.exists = "false"
    /\ wiz.clicks.create < MaxBootstraps
    /\ Wizard([wiz EXCEPT !.schemaState = LoadingSchema, !.bootstrap = "sent",
                          !.clicks.create = @ + 1])

\* lines 975-999
BootstrapArrives(outcomes) ==
    /\ wiz.page = "open" /\ wiz.bootstrap = "sent"
    /\ \E outcome \in outcomes :
          LET w == [wiz EXCEPT !.bootstrap = "none"]
          IN Wizard(CASE outcome = "executed" ->
                           refresh([w EXCEPT !.schemaState =
                                                 [status |-> SUCCESS, exists |-> "true"]])
                      [] outcome = "refused" ->
                           [w EXCEPT !.schemaState = [status |-> ERROR, exists |-> "false"]]
                      [] OTHER ->
                           [w EXCEPT !.schemaState = [status |-> ERROR, exists |-> "null"]])

-----------------------------------------------------------------------------
(* The wizard of one session against the stores *)

StoredMarker == Obj("tuttiudAppJwt" :> STORED)
\* documents org_settings.metadata may hold when the page opens
InitialMetadata ==
    { Null, Obj(("connections" :> Obj("tuttiud" :> Connected)) @@ ("credentials" :> StoredMarker)) }

InitWizardWith(keys, documents) ==
    /\ \E c0 \in keys :
          /\ organizations = (o1 :> [dedicated_key_encrypted |-> c0])
                               @@ (o2 :> [dedicated_key_encrypted |-> Null])
          /\ hist = [original |-> (o1 :> c0) @@ (o2 :> Null),
                     lastSuccess |-> (o1 :> None) @@ (o2 :> None) @@ (o9 :> None),
                     fault |-> FALSE]
    /\ \E metadata \in documents :
          org_settings = (o1 :> [supabase_url |-> S(tenantUrl), metadata |-> metadata])
    /\ reqs = [r \in Slots |-> IdleSlot]
    /\ fn = NoCall
    /\ wiz = settle(InitialWizard)

InitWizard == InitWizardWith(InitialKeys, InitialMetadata)

\* the handler of the save the page sent
SaveHandler ==
    \/ ReceiveSave
    \/ Authenticate("r1")
    \/ ReadMembershipWith("r1", {FixedIv})
    \/ ReadOrganization("r1")
    \/ StoreKey("r1")
    \/ Probe("r1")
    \/ Revert("r1")
    \/ UpdateMetadata("r1")

\* The page with a user who acts when nothing the page started is in flight
\* (Quiet), clicks each button up to its bound and only ticks the checklist.
\* The page itself accepts clicks at any time: runs that overlap are in
\* NextStale and the unchecking of an item in NextChecklist.
NextWizard ==
    \/ StatusHandled
    \/ StatusArrives
    \/ SettingsRead
    \/ SettingsArrives
    \/ \E key \in ChecklistItems : ToggleChecklist(key, TRUE)
    \/ PreparationContinue
    \/ TypeAppKey
    \/ SaveAppKey
    \/ SaveHandler
    \/ SaveResponse
    \/ RequestValidation
    \/ ValidationSettingsRead
    \/ ValidationSettingsArrive
    \/ VerifyHandled
    \/ VerifyArrives
    \/ InitializeArrives(InitializeOutcomes)
    \/ SchemaArrives(SchemaOutcomes)
    \/ DiagnosticsArrives(DiagnosticsOutcomes)
    \/ UpdateWrites
    \/ UpdateArrives
    \/ Refresh
    \/ Retry
    \/ CreateSchema
    \/ BootstrapArrives(BootstrapOutcomes)

SpecWizard == InitWizard /\ [][NextWizard]_vars

-----------------------------------------------------------------------------
(* Two sessions: the wizard of an organization whose key is stored, and an  *)
(* administrator who stores a key from another session (slot r2)            *)

InitSessions == InitWizardWith(InitialKeys \ {Null}, {Null})

OtherSession ==
    \/ Receive("r2")
    \/ Authenticate("r2")
    \/ ReadMembership("r2")
    \/ ReadOrganization("r2")
    \/ StoreKey("r2")
    \/ Probe("r2")
    \/ Revert("r2")
    \/ UpdateMetadata("r2")

NextSessions ==
    \/ StatusHandled
    \/ StatusArrives
    \/ SettingsRead
    \/ SettingsArrives
    \/ RequestValidation
    \/ ValidationSettingsRead
    \/ ValidationSettingsArrive
    \/ VerifyHandled
    \/ VerifyArrives
    \/ SchemaArrives(SchemaOutcomes)
    \/ UpdateWrites
    \/ UpdateArrives
    \/ OtherSession

SpecSessions == InitSessions /\ [][NextSessions]_vars

-----------------------------------------------------------------------------
(* Properties of Store Credential *)

storedKey(orgs, orgId) == orgs[orgId].dedicated_key_encrypted

\* the step in which request r sends its answer
Answers(r, status) == reqs[r].pc /= "done" /\ reqs'[r].pc = "done" /\ reqs'[r].res.status = status

AllAnswered == \A r \in Slots : reqs[r].pc = "done"

\* C1: when the probe with the new credential fails, the organization's stored
\* ciphertext is C0 again (the value the request read) once the request has
\* answered 400.
C1_ProbeFailureRestoresC0 ==
    [][\A r \in Slots :
          (reqs[r].probe = "failed" /\ Answers(r, 400))
              => storedKey(organizations', reqs[r].orgId)
                     = reqs[r].existingOrg.dedicated_key_encrypted]_vars

\* C2: a request that answers 200 leaves a stored ciphertext that decrypts under
\* the server key to the submitted secret, trimmed, and its own probe with that
\* secret succeeded.
C2_SuccessStoresSubmittedSecret ==
    [][\A r \in Slots :
          Answers(r, 200)
              => /\ reqs[r].probe = "ok"
                 /\ tenantAccepts(reqs[r].tenantSupabaseUrl, trim(reqs[r].req.body.appKey.s))
                 /\ Truthy(storedKey(organizations', reqs[r].orgId))
                 /\ decryptValue(storedKey(organizations', reqs[r].orgId), ServerSecret)
                        = S(trim(reqs[r].req.body.appKey.s))]_vars

\* C3: once both requests have answered, the stored ciphertext of every
\* organization is that of the last request that answered 200, or the original
\* one when none did. Stated for the runs in which no control-store call came
\* back with an error: the overlap of the two requests alone breaks it.
C3_LastSuccessOrOriginal ==
    (AllAnswered /\ ~hist.fault)
        => \A o \in Orgs :
              storedKey(organizations, o) =
                  IF hist.lastSuccess[o] = None THEN hist.original[o] ELSE hist.lastSuccess[o]

\* C4: org_settings.metadata is written only by a request whose probe has
\* succeeded, in the step in which it answers 200, and what it writes carries
\* the marker; a request whose probe failed leaves org_settings alone.
C4_MarkerOnlyAfterProbe ==
    [][/\ org_settings' /= org_settings
          => \E r \in Slots :
                /\ reqs[r].probe = "ok" /\ Answers(r, 200)
                /\ isRecord(org_settings'[reqs[r].orgId].metadata)
                /\ org_settings'[reqs[r].orgId].metadata.f["credentials"].f["tuttiudAppJwt"]
                       = STORED
       /\ \A r \in Slots :
             (reqs[r].probe = "failed" /\ reqs'[r] /= reqs[r]) => org_settings' = org_settings
      ]_vars

\* the marker is in org_settings after a request whose probe succeeded
C4_Witness ==
    \E r \in Slots :
        /\ reqs[r].pc = "done" /\ reqs[r].res.status = 200 /\ reqs[r].probe = "ok"
        /\ org_settings[o1].metadata = buildStoredMetadata(reqs[r].currentMetadata)
        /\ org_settings[o1].metadata /= Null

\* the membership of the caller of a request gives role admin or owner in the
\* organization the request names
callerOf(req) ==
    LET token == getBearerToken(req)
    IN IF Truthy(token) THEN getUser(token.s) ELSE NoUser
IsAdminOrOwner(role) == Truthy(role) /\ toLowerCase(role.s) \in {ADMIN.s, OWNER.s}
CallerIsAdmin(req) ==
    /\ req /= Null
    /\ callerOf(req) /= NoUser
    /\ IsString(req.body.orgId)
    /\ <<trim(req.body.orgId.s), callerOf(req)>> \in DOMAIN Memberships
    /\ IsAdminOrOwner(Memberships[<<trim(req.body.orgId.s), callerOf(req)>>])

\* C5: every write to organizations or org_settings is a step of a request
\* whose caller holds a valid token and an admin or owner membership in the
\* organization written.
C5_WritesOnlyForAdmins ==
    [][(organizations' /= organizations \/ org_settings' /= org_settings)
          => \E r \in Slots :
                /\ reqs'[r] /= reqs[r]
                /\ CallerIsAdmin(reqs[r].req)
                /\ \A o \in Orgs :
                      (o /= reqs[r].orgId) =>
                          (organizations'[o] = organizations[o]
                           /\ rowOf(org_settings', o) = rowOf(org_settings, o))]_vars

\* a request of an admin (stored role "Admin") has written the organization
C5_Witness ==
    \E r \in Slots :
        /\ reqs[r].pc = "probe"
        /\ callerOf(reqs[r].req) = "u2"
        /\ storedKey(organizations, o1) = reqs[r].encryptedPayload

-----------------------------------------------------------------------------
(* Properties of the guard *)

\* the rank of a role as org_memberships stores it: owner 2, admin 1, anything else 0
storedRank(role) ==
    IF ~Truthy(role) THEN 0
    ELSE IF toLowerCase(role.s) = OWNER.s THEN 2
    ELSE IF toLowerCase(role.s) = ADMIN.s THEN 1
    ELSE 0

\* the rank of a required role
requiredRank(role) == CASE role = OWNER -> 2 [] role = ADMIN -> 1 [] OTHER -> 0

IsGuardCall == fn.op \in {"loadControlContext", "loadTenantContext"}
\* the call names an organization and the control-store configuration is complete
GuardReached == fn.orgId /= <<>> /\ adminConfigComplete(fn.env)
CallerHasRow == <<fn.orgId, fn.case.user>> \in DOMAIN fn.memberships
CallerRow == fn.memberships[<<fn.orgId, fn.case.user>>]
MadeCall(name) == \E i \in 1..Len(fn.result.calls) : fn.result.calls[i] = name

\* C6: the guard returns successfully only for a token the identity service
\* knows, a membership row of that user in the organization and a stored role
\* whose rank is at least the required rank; the resolver returns a tenant
\* client only for such a caller.
C6_GuardOnlyAdmitsMembers ==
    (IsGuardCall /\ fn.result.ok)
        => /\ fn.case.kind = "valid"
           /\ fn.result.user = fn.case.user
           /\ CallerHasRow
           /\ storedRank(CallerRow) >= requiredRank(fn.requireRole)

\* the resolver has produced a tenant client for an admin
C6_Witness ==
    /\ fn.op = "loadTenantContext" /\ fn.result.ok
    /\ fn.requireRole = ADMIN
    /\ fn.result.tenantClient = [url |-> S(tenantUrl), key |-> S(k0)]

\* C7: on member, admin and owner, ensureRole(current, required) is true exactly
\* when rank(current) >= rank(required), with member 0 < admin 1 < owner 2.
C7_EnsureRoleIsRankOrder ==
    (fn.op = "ensureRole" /\ fn.currentRole \in RequiredRoles)
        => /\ fn.result = (requiredRank(fn.currentRole) >= requiredRank(fn.required))
           /\ (fn.currentRole = MEMBER /\ fn.required = ADMIN) => ~fn.result
           /\ (fn.currentRole = OWNER /\ fn.required = MEMBER) => fn.result
           /\ (fn.currentRole = ADMIN /\ fn.required = ADMIN) => fn.result

\* ensureRole has been called with an admin against the admin requirement
C7_Witness ==
    fn.op = "ensureRole" /\ fn.currentRole = ADMIN /\ fn.required = ADMIN /\ fn.result

\* C8: with an organization named and the configuration complete, an absent
\* header, a header that is not "Bearer <token>" and a token the identity
\* service rejects are each answered 401, and org_memberships is not queried.
C8_Unauthenticated401 ==
    (fn.op = "loadControlContext" /\ GuardReached
       /\ fn.case.kind \in {"absent", "malformed", "rejected"})
        => /\ ~fn.result.ok
           /\ fn.result.status = 401
           /\ ~MadeCall("org_memberships")

\* a rejected token has been answered 401 after the identity service was asked
C8_Witness ==
    /\ fn.op = "loadControlContext" /\ fn.case.kind = "rejected"
    /\ fn.result.status = 401 /\ MadeCall("auth.getUser")

\* C9 as stated: for a caller whose token the guard has found valid, the guard
\* answers 403 whenever the caller has no membership row in the organization
\* or the row's rank is below the required rank.
C9_Forbidden403AsStated ==
    (fn.op = "loadControlContext" /\ GuardReached /\ fn.case.kind = "valid"
       /\ (~CallerHasRow \/ storedRank(CallerRow) < requiredRank(fn.requireRole)))
        => ~fn.result.ok /\ fn.result.status = 403

\* C9, amended: for a caller whose token the guard has found valid, a
\* membership query that answers without an error and finds no row, or a row
\* whose rank is below the required rank, is answered 403.
C9_Forbidden403 ==
    (fn.op = "loadControlContext" /\ GuardReached /\ fn.case.kind = "valid"
       /\ ~fn.membershipError
       /\ (~CallerHasRow \/ storedRank(CallerRow) < requiredRank(fn.requireRole)))
        => ~fn.result.ok /\ fn.result.status = 403

\* a caller without a membership row has been answered 403 for the member requirement
C9_Witness ==
    /\ fn.op = "loadControlContext" /\ fn.case.kind = "valid" /\ ~CallerHasRow
    /\ fn.requireRole = MEMBER /\ fn.result.status = 403

\* C10: a stored role that is not admin or owner, whatever its case, is
\* normalised to member and passes neither the admin nor the owner requirement.
C10_NormalisationFailsClosed ==
    /\ (fn.op = "normaliseRole" /\ ~IsAdminOrOwner(fn.role)) => fn.result = MEMBER
    /\ (fn.op = "ensureRole" /\ ~IsAdminOrOwner(fn.currentRole)
          /\ fn.required \in {ADMIN, OWNER}) => ~fn.result
    /\ (IsGuardCall /\ fn.case.kind = "valid" /\ CallerHasRow
          /\ fn.requireRole \in {ADMIN, OWNER}) =>
              (~IsAdminOrOwner(CallerRow) => ~fn.result.ok)

\* a role that only contains the word admin has been normalised to member
C10_Witness ==
    /\ fn.op = "normaliseRole"
    /\ fn.role = S(<<"s", "u", "p", "e", "r", "a", "d", "m", "i", "n">>)
    /\ fn.result = MEMBER

-----------------------------------------------------------------------------
(* Properties of the resolver and of the cipher *)

\* the resolver call passes the guard: the encryption secret is configured and
\* the caller is a member of the organization with the required rank
ResolverGuardPassed ==
    /\ fn.op = "loadTenantContext"
    /\ Truthy(fn.env.APP_ORG_CREDENTIALS_ENCRYPTION_KEY)
    /\ GuardReached /\ fn.case.kind = "valid" /\ ~fn.membershipError
    /\ CallerHasRow /\ storedRank(CallerRow) >= requiredRank(fn.requireRole)
AddressPresent ==
    fn.orgId \in DOMAIN fn.settings /\ Truthy(fn.settings[fn.orgId].supabase_url)

\* C11 as stated: the resolver returns a tenant client only when the
\* organization's address is stored, its encrypted credential is stored and
\* the credential decrypts under the server secret; every failure leaves no
\* tenant client; past the guard a missing address is answered 409, an absent
\* credential 409 and a credential that does not decrypt 500.
C11_ResolverFailuresAsStated ==
    /\ (fn.op = "loadTenantContext" /\ fn.result.ok)
          => /\ AddressPresent /\ fn.credential = "sealed"
             /\ fn.result.tenantClient = [url |-> fn.settings[fn.orgId].supabase_url,
                                          key |-> S(k0)]
    /\ (fn.op = "loadTenantContext" /\ ~fn.result.ok) => fn.result.tenantClient = Null
    /\ (ResolverGuardPassed /\ ~AddressPresent)
          => ~fn.result.ok /\ fn.result.status = 409
    /\ (ResolverGuardPassed /\ AddressPresent /\ fn.credential = "absent")
          => ~fn.result.ok /\ fn.result.status = 409
    /\ (ResolverGuardPassed /\ AddressPresent
          /\ fn.credential \in {"foreign", "short", "tampered"})
          => ~fn.result.ok /\ fn.result.status = 500

\* C11, amended: the resolver returns a tenant client only when the
\* organization's address is stored, its encrypted credential is stored and
\* the credential decrypts under the server secret; every failure leaves no
\* tenant client; past the guard, a settings read that returns an error is
\* answered 500 and one that answers without an address 409; then an
\* organization read that returns an error is answered 500 and one that
\* answers without a credential 409; then a credential that does not decrypt
\* is answered 500.
C11_ResolverFailures ==
    /\ (fn.op = "loadTenantContext" /\ fn.result.ok)
          => /\ AddressPresent /\ fn.credential = "sealed"
             /\ ~fn.io.settingsError /\ ~fn.io.organizationError
             /\ fn.result.tenantClient = [url |-> fn.settings[fn.orgId].supabase_url,
                                          key |-> S(k0)]
    /\ (fn.op = "loadTenantContext" /\ ~fn.result.ok) => fn.result.tenantClient = Null
    /\ (ResolverGuardPassed /\ fn.io.settingsError)
          => ~fn.result.ok /\ fn.result.status = 500
    /\ (ResolverGuardPassed /\ ~fn.io.settingsError /\ ~AddressPresent)
          => ~fn.result.ok /\ fn.result.status = 409
    /\ (ResolverGuardPassed /\ ~fn.io.settingsError /\ AddressPresent
          /\ fn.io.organizationError)
          => ~fn.result.ok /\ fn.result.status = 500
    /\ (ResolverGuardPassed /\ ~fn.io.settingsError /\ AddressPresent
          /\ ~fn.io.organizationError /\ fn.credential = "absent")
          => ~fn.result.ok /\ fn.result.status = 409
    /\ (ResolverGuardPassed /\ ~fn.io.settingsError /\ AddressPresent
          /\ ~fn.io.organizationError /\ fn.credential \in {"foreign", "short", "tampered"})
          => ~fn.result.ok /\ fn.result.status = 500

\* a credential sealed under another secret has been answered 500 with no client
C11_Witness ==
    /\ ResolverGuardPassed /\ AddressPresent /\ fn.credential = "foreign"
    /\ fn.result.status = 500 /\ fn.result.tenantClient = Null

\* C12 as stated: for every string and every non-empty key material, decrypting
\* what encryptValue returned, with the same key material, gives the string back.
C12_RoundTripAsStated ==
    fn.op = "roundTrip" => fn.result = S(fn.value.chars)

\* C12, amended: the round trip gives the string back for every string that is
\* well-formed UTF-16; a surrogate without its other half comes back as U+FFFD.
C12_RoundTrip ==
    /\ (fn.op = "roundTrip" /\ fn.value.wellFormed) => fn.result = S(fn.value.chars)
    /\ (fn.op = "roundTrip" /\ ~fn.value.wellFormed)
          => /\ fn.result /= Thrown
             /\ Len(fn.result.s) = Len(fn.value.chars)
             /\ \A i \in 1..Len(fn.value.chars) :
                   fn.result.s[i] \in {fn.value.chars[i], "uFFFD"}

\* a string outside ASCII has come back from the round trip under a base64 key
C12_Witness ==
    /\ fn.op = "roundTrip" /\ fn.secret.key = "zero"
    /\ fn.value.chars = <<"u", "uD83D", "uDE00">>
    /\ fn.result = S(<<"u", "uD83D", "uDE00">>)

\* C13: decryptValue throws for a payload shorter than 28 bytes, for a payload
\* with a bit of its tag or body changed or with its end cut off, and for a
\* key other than the one that sealed it; what it returns without throwing is
\* the text whose UTF-8 bytes were sealed.
C13_DecryptFailsClosed ==
    /\ (fn.op = "decryptValue" /\ Len(fn.payload.b64) < 28) => fn.result = Thrown
    /\ (fn.op = "decryptValue" /\ fn.edit.kind = "flip" /\ fn.edit.at > IvBytes)
          => fn.result = Thrown
    /\ (fn.op = "decryptValue" /\ fn.edit.kind = "truncate") => fn.result = Thrown
    /\ (fn.op = "decryptValue"
          /\ deriveEncryptionKey(fn.sealedWith.secret) /= deriveEncryptionKey(fn.openedWith.secret))
          => fn.result = Thrown
    /\ (fn.op = "decryptValue" /\ fn.result /= Thrown)
          => utf8Encode(fn.result.s) = utf8Encode(fn.value.chars)

\* a payload with the top bit of its last body byte inverted has been refused
\* under the key that sealed it
C13_Witness ==
    /\ fn.op = "decryptValue" /\ fn.sealedWith = fn.openedWith
    /\ fn.edit = [kind |-> "flip", at |-> Len(fn.payload.b64), mask |-> 128]
    /\ Len(fn.payload.b64) > MinPayloadBytes
    /\ fn.result = Thrown

-----------------------------------------------------------------------------
(* Properties of the metadata merge *)

\* the value under key of a document, Absent when the document has no such key
valueAt(doc, key) == IF isRecord(doc) /\ key \in DOMAIN doc.f THEN doc.f[key] ELSE Absent
\* every key of part other than those in except is in whole with the same value
KeepsKeys(part, whole, except) ==
    isRecord(part) =>
        /\ isRecord(whole)
        /\ \A k \in DOMAIN part.f \ except : k \in DOMAIN whole.f /\ whole.f[k] = part.f[k]

IsConnectedCall == fn.op = "nextRaw" /\ fn.status = Connected

\* C14 as stated: the document written for status "connected" has
\* connections.tuttiud = "connected" and keeps every other key of
\* currentMetadata with its value: the other top-level keys, the other keys of
\* connections, and credentials with its keys, tuttiudAppJwt among them.
C14_MergeKeepsKeysAsStated ==
    IsConnectedCall =>
        /\ valueAt(valueAt(fn.result, "connections"), "tuttiud") = Connected
        /\ KeepsKeys(fn.metadata, fn.result, {"connections", "credentials"})
        /\ KeepsKeys(valueAt(fn.metadata, "connections"), valueAt(fn.result, "connections"),
                     {"tuttiud"})
        /\ valueAt(fn.metadata, "credentials") /= Absent
              => valueAt(fn.result, "credentials") = valueAt(fn.metadata, "credentials")

\* credentials.tuttiudAppJwt is a string with a character other than white space
HasMarker(credentials) ==
    /\ IsString(valueAt(credentials, "tuttiudAppJwt"))
    /\ \E i \in 1..Len(valueAt(credentials, "tuttiudAppJwt").s) :
          ~IsSpace(valueAt(credentials, "tuttiudAppJwt").s[i])

\* C14, amended: the document written has connections.tuttiud = "connected"
\* and keeps the other top-level keys, the other keys of connections and the
\* keys of credentials; credentials.tuttiudAppJwt keeps its value when that is
\* a string that is not blank and is written as null otherwise, and a
\* credentials value that is not an object is written as an object.
C14_MergeKeepsKeys ==
    IsConnectedCall =>
        /\ valueAt(valueAt(fn.result, "connections"), "tuttiud") = Connected
        /\ KeepsKeys(fn.metadata, fn.result, {"connections", "credentials"})
        /\ KeepsKeys(valueAt(fn.metadata, "connections"), valueAt(fn.result, "connections"),
                     {"tuttiud"})
        /\ KeepsKeys(valueAt(fn.metadata, "credentials"), valueAt(fn.result, "credentials"),
                     {"tuttiudAppJwt"})
        /\ isRecord(fn.metadata) => isRecord(valueAt(fn.result, "credentials"))
        /\ valueAt(valueAt(fn.result, "credentials"), "tuttiudAppJwt") =
              IF HasMarker(valueAt(fn.metadata, "credentials"))
              THEN valueAt(valueAt(fn.metadata, "credentials"), "tuttiudAppJwt")
              ELSE IF isRecord(fn.metadata) THEN Null ELSE Absent

\* a document with a theme, another connection and the stored marker has been
\* merged with the new status
C14_Witness ==
    /\ IsConnectedCall
    /\ fn.metadata = documentOf(S(<<"d", "a", "r", "k">>),
                                Obj(("tuttiud" :> Pending) @@ ("other" :> Connected)),
                                Obj(("tuttiudAppJwt" :> STORED) @@ ("other" :> S(<<"x">>))))
    /\ fn.result = documentOf(S(<<"d", "a", "r", "k">>),
                              Obj(("tuttiud" :> Connected) @@ ("other" :> Connected)),
                              Obj(("tuttiudAppJwt" :> STORED) @@ ("other" :> S(<<"x">>))))

-----------------------------------------------------------------------------
(* Properties of the setup wizard: a failed verification of the stored key *)

\* a step in which the verification of the stored key fails
VerifyFailureStep ==
    /\ wiz.page = "open"
    /\ wiz.lastRun.pc = "verify"
    /\ wiz'.lastRun.verify = "failed"

\* the page after the last connectivity check ended on a failed verification,
\* the status still reporting a stored key
AfterVerifyFailure ==
    /\ wiz.page = "open"
    /\ wiz.lastRun.ended = "verify-failed"
    /\ hasDedicatedKeyStored(wiz)

\* C16: when the verification with the stored key fails during a connectivity
\* check, the page needs preparation again with the checklist and the
\* acknowledgement reset, Step 2 is in error, and the run has ended having
\* called the settings read and the verification only: neither initialize,
\* nor the schema check, nor diagnostics
C16_GateReopens ==
    [][VerifyFailureStep =>
          /\ wiz.lastRun.hasDedicatedKeyStored
          /\ wiz'.needsPreparation
          /\ wiz'.preparationChecklist = UncheckedList
          /\ ~wiz'.preparationAcknowledged
          /\ wiz'.preparationState = ERROR
          /\ wiz'.initState = ERROR
          /\ wiz'.runs = <<>>
          /\ wiz'.lastRun.ended = "verify-failed"
          /\ wiz'.lastRun.calls = {"settings", "verify"}
          /\ wiz'.schemaState.status = IDLE
          /\ wiz'.diagnosticsState.status = IDLE]_vars

C16_Witness ==
    /\ wiz.page = "open"
    /\ wiz.lastRun.ended = "verify-failed"
    /\ wiz.lastRun.hasDedicatedKeyStored
    /\ wiz.needsPreparation
    /\ wiz.initState = ERROR

\* C17 as stated: after the verification with the stored key fails, Step 1
\* (the key field) is shown again
C17_StepOneShownAsStated ==
    [][VerifyFailureStep => shouldShowAppKeyStep(wiz')]_vars

\* C17: after the verification with the stored key fails, Step 1 (the key
\* field) stays hidden, the key being stored
C17_StepOneHidden ==
    [][VerifyFailureStep => (hasDedicatedKeyStored(wiz') /\ ~shouldShowAppKeyStep(wiz'))]_vars

C17_Witness ==
    /\ AfterVerifyFailure
    /\ wiz.needsPreparation
    /\ ~wiz.preparationAcknowledged
    /\ ~shouldShowAppKeyStep(wiz)

\* C18: after the verification of a stored key failed the page is on the
\* preparation step, the checklist shows the script item only and is
\* complete as soon as that item is ticked, and Step 1 is not shown, before
\* and after the user continues
C18_ScriptItemOnly ==
    AfterVerifyFailure =>
        /\ wiz.needsPreparation
        /\ shouldShowPreparationGuide(wiz)
        /\ { item \in ChecklistItems : checklistItemShown(wiz, item) } = {"scriptExecuted"}
        /\ (isPreparationChecklistComplete(wiz) <=> wiz.preparationChecklist.scriptExecuted)
        /\ ~shouldShowAppKeyStep(wiz)

C18_Witness ==
    /\ AfterVerifyFailure
    /\ wiz.preparationChecklist =
          [schemaExposed |-> FALSE, scriptExecuted |-> TRUE, keyCaptured |-> FALSE]
    /\ wiz.preparationAcknowledged
    /\ wiz.preparationState = SUCCESS

-----------------------------------------------------------------------------
(* Properties of the setup wizard: the commit of the connection *)

\* a step in which the page calls updateTuttiudConnectionStatus
UpdateIssued == wiz.page = "open" /\ wiz'.updatesIssued > wiz.updatesIssued

\* C19: whenever the page issues the connection update, by the effect or by
\* the retry button, Step 2 is success, Step 3 is success with the schema
\* existing, Step 4 is success and the page does not need preparation
C19_UpdateOnlyWhenReady ==
    [][UpdateIssued =>
          /\ wiz'.initState = SUCCESS
          /\ wiz'.schemaState = [status |-> SUCCESS, exists |-> "true"]
          /\ wiz'.diagnosticsState.status = SUCCESS
          /\ ~wiz'.needsPreparation]_vars

\* the first-time flow has run to its end: the organization had no key and no
\* connection status, the user stored a key the tenant store accepts, and
\* the connectivity check that followed went through initialize, the schema
\* check (the schema exists) and diagnostics (status ok), all succeeding
FirstTimeFlowSucceeded ==
    /\ wiz.page = "open"
    /\ hist.original[WizardOrg] = Null
    /\ hist.lastSuccess[WizardOrg] /= None
    /\ wiz.lastRun.calls = {"settings", "initialize", "schema", "diagnostics"}
    /\ wiz.lastRun.ended = "diagnostics-done"
    /\ wiz.schemaState = [status |-> SUCCESS, exists |-> "true"]
    /\ wiz.diagnosticsState = [status |-> SUCCESS, diagnostics |-> "ok"]

\* C20: once the first-time flow has succeeded the page has issued the update
\* that commits the connection, the user doing nothing more: when the run
\* returns every effect has run, so an update not issued by then is not
\* issued before the user acts again
C20_FirstTimeFlowCommits ==
    FirstTimeFlowSucceeded => wiz.updatesIssued > 0

-----------------------------------------------------------------------------
(* Properties of the metadata document under two writers *)

\* the connection status and the credentials marker of the stored document
storedStatus(settings) ==
    normaliseMetadata(rowOf(settings, WizardOrg).metadata).connections["tuttiud"]
storedMarker(settings) ==
    normaliseMetadata(rowOf(settings, WizardOrg).metadata).credentials["tuttiudAppJwt"]

\* C15: every write of org_settings.metadata keeps what the stored document
\* holds at the time of the write: a stored connections.tuttiud = "connected"
\* and a stored credentials marker are still there after any step, also when
\* the writer holds an older copy of the document
C15_WritesKeepStoredParts ==
    [][/\ (storedStatus(org_settings) = Connected => storedStatus(org_settings') = Connected)
       /\ (storedMarker(org_settings) = STORED => storedMarker(org_settings') = STORED)]_vars

-----------------------------------------------------------------------------
(* Properties of the page on a return visit (spec: Scenario B, Step 2) *)

\* the organization had its key stored when the page opened; the page has
\* loaded both queries, the status reports the key and the loaded settings say
\* "connected"
LoadedReturningConnected ==
    /\ wiz.page = "open"
    /\ hist.original[WizardOrg] /= Null
    /\ wiz.setupStatusQuery.status = "success" /\ wiz.setupStatusQuery.data = "true"
    /\ wiz.settingsQuery.status = "success" /\ wiz.settingsQuery.data /= Null
    /\ wiz.organizationSettings /= Null /\ tuttiudStatus(wiz) = Connected

\* C21 as stated: on page load with a stored credential and the stored status
\* "connected", the wizard starts the credential-backed verify on its own,
\* without a click.
C21_VerifyStartsOnLoad ==
    (LoadedReturningConnected /\ wiz.clicks.validate = 0)
        => (wiz.lastRun.origin = "auto" /\ wiz.lastRun.hasDedicatedKeyStored)

\* C21 amended: on page load with a stored credential and the stored status
\* "connected" no check starts until the user clicks: the page shows the
\* returning-verification card and the verify button is enabled; every run that
\* calls verify was started by a click.
C21_VerifyWaitsForClick ==
    /\ (LoadedReturningConnected /\ wiz.clicks.validate = 0)
          => /\ wiz.lastRun = NoRun /\ wiz.runs = <<>>
             /\ wiz.validationTrigger = "none"
             /\ showReturningVerification(wiz)
             /\ canRequestValidation(wiz) /\ ~isValidationLoading(wiz)
    /\ ("verify" \in wiz.lastRun.calls => wiz.lastRun.origin = "manual")

C21_Witness ==
    /\ LoadedReturningConnected
    /\ wiz.clicks.validate = 1
    /\ wiz.lastRun.origin = "manual" /\ wiz.lastRun.verify = "passed"

\* the last run went through every check and each step reports success
ChainSucceeded ==
    /\ wiz.lastRun.ended \in {"diagnostics-done", "diagnostics-reused"}
    /\ wiz.initState = SUCCESS
    /\ wiz.schemaState.status = SUCCESS /\ wiz.schemaState.exists = "true"
    /\ wiz.diagnosticsState.status = SUCCESS

\* C22: when the connection status the page loaded from the server is already
\* "connected", no connection-flag update is issued: an update is only ever
\* issued while the page's copy of the settings and the stored document both
\* say something other than "connected".
C22_NoCommitWhenConnected ==
    [][UpdateIssued => /\ tuttiudStatus(wiz) /= Connected
                       /\ storedStatus(org_settings) /= Connected]_vars

C22_Witness ==
    /\ ChainSucceeded
    /\ wiz.organizationSettings /= Null /\ tuttiudStatus(wiz) = Connected
    /\ wiz.runs = <<>> /\ wiz.update = <<>> /\ wiz.updatesIssued = 0
    /\ wiz.connectionUpdateState = IDLE

\* C23: a failed credential-backed verify changes nothing in the control
\* store: the step in which the failure arrives leaves organizations and
\* org_settings as they were and leaves no write of the page in flight, and
\* once the verify has failed a stored status "connected" stays "connected".
C23_FailedVerifyWritesNothing ==
    [][/\ VerifyFailureStep =>
             /\ organizations' = organizations /\ org_settings' = org_settings
             /\ wiz'.update = <<>> /\ wiz'.save = "none"
             /\ wiz'.updatesIssued = wiz.updatesIssued
       /\ (wiz.lastRun.verify = "failed" /\ storedStatus(org_settings) = Connected)
             => /\ storedStatus(org_settings') = Connected
                /\ organizations'[WizardOrg] = organizations[WizardOrg]]_vars

C23_Witness ==
    /\ wiz.lastRun.verify = "failed" /\ wiz.lastRun.ended = "verify-failed"
    /\ storedStatus(org_settings) = Connected
    /\ organizations[WizardOrg].dedicated_key_encrypted = hist.original[WizardOrg]
    /\ wiz.updatesIssued = 0

-----------------------------------------------------------------------------
(* Properties of loading and refreshing the page (spec: design rules) *)

\* what the page shows of its steps and of the preparation gate
snapshot(w) ==
    [preparationState |-> w.preparationState,
     appKeyState |-> w.appKeyState,
     initState |-> w.initState,
     schemaState |-> w.schemaState,
     diagnosticsState |-> w.diagnosticsState.status,
     connectionUpdateState |-> w.connectionUpdateState,
     needsPreparation |-> w.needsPreparation,
     preparationAcknowledged |-> w.preparationAcknowledged,
     preparationChecklist |-> w.preparationChecklist]

\* the page right after it is opened and both queries have answered with the
\* stored-credential flag and the settings given
freshLoad(flag, settings) ==
    settle([settle(InitialWizard) EXCEPT
               !.setupStatusQuery = [status |-> "success", data |-> flag, fetching |-> FALSE],
               !.settingsQuery = [status |-> "success", data |-> settings, fetching |-> FALSE]])

\* the answer that completes a page load or an explicit refresh arrives
LoadCompletes ==
    /\ wiz.page = "open"
    /\ wiz.setupStatusQuery.status = "pending" \/ wiz.settingsQuery.status = "pending"
    /\ wiz'.setupStatusQuery = [status |-> "success", data |-> wiz'.setupStatusQuery.data,
                                fetching |-> FALSE]
    /\ wiz'.settingsQuery = [status |-> "success", data |-> wiz'.settingsQuery.data,
                             fetching |-> FALSE]

\* C24: idempotent resume: whenever a page load or an explicit refresh
\* completes, the step statuses and the preparation gate are those of a page
\* opened for the first time against the same server state, whatever the page
\* held before.
C24_ResumeFromServerStateOnly ==
    [][LoadCompletes =>
          snapshot(wiz') = snapshot(freshLoad(wiz'.setupStatusQuery.data,
                                              wiz'.settingsQuery.data))]_vars

-----------------------------------------------------------------------------
(* Properties of the preparation gate of a new organization (spec: Step 1) *)

\* the control store holds no key, no marker and no "connected" for the
\* organization
NewOrganization ==
    /\ ~Truthy(rowOf(organizations, WizardOrg).dedicated_key_encrypted)
    /\ storedMarker(org_settings) /= STORED
    /\ storedStatus(org_settings) /= Connected

\* all three items are checked and the gate has been acknowledged
GatePassed(w) ==
    /\ \A key \in ChecklistItems : w.preparationChecklist[key]
    /\ w.preparationAcknowledged

\* the page sends a Store Credential request
SaveSent == wiz.page = "open" /\ wiz.save = "none" /\ wiz'.save = "sent"

\* C25: for a new organization Step 1 is not shown, and no Store Credential
\* request is sent, until all three checklist items are checked and the user
\* has pressed Continue.
C25_StepOneGated ==
    [][NewOrganization =>
          /\ shouldShowAppKeyStep(wiz) => GatePassed(wiz)
          /\ SaveSent => GatePassed(wiz)]_vars

\* C25 amended: for a new organization no Store Credential request is sent
\* until all three checklist items are checked and the user has pressed
\* Continue, and once the page has loaded the settings Step 1 is not shown
\* until then (before the settings have loaded Step 1 is rendered with its
\* save button disabled).
C25_LoadedStepOneGated ==
    [][NewOrganization =>
          /\ (wiz.organizationSettings /= Null /\ shouldShowAppKeyStep(wiz)) => GatePassed(wiz)
          /\ SaveSent => GatePassed(wiz)]_vars

C25_Witness ==
    /\ NewOrganization
    /\ wiz.organizationSettings /= Null /\ shouldShowAppKeyStep(wiz)
    /\ GatePassed(wiz)
    /\ wiz.save = "sent" /\ reqs["r1"].pc /= "idle"

-----------------------------------------------------------------------------
(* The answers of the three gateway handlers and the application key *)

\* a document of the time the raw key was kept in the metadata
LegacyMetadata == Obj("credentials" :> Obj("tuttiudAppJwt" :> S(k1)))

\* an administrator of the organization submits keys the tenant store accepts
\* or rejects, with the document the page holds
SecretRequests ==
    { StoreReq("POST", Headers(Bearer(WizardToken), Null),
               StoreBody(S(WizardOrg), S(key), S(tenantUrl), LegacyMetadata), EnvComplete)
      : key \in {k1, k2, k3} }

ReceiveSecret(r) ==
    /\ reqs[r].pc = "idle"
    /\ \E req \in SecretRequests : reqs' = [reqs EXCEPT ![r] = receive(req)]
    /\ UNCHANGED <<organizations, org_settings, hist, fn, wiz>>

\* A request of the administrator to the status or the verify handler is kept
\* in fn while the handler serves it (one request of either handler per
\* behaviour): fn.at is the await the handler waits at.
AdminCall(call) ==
    [op |-> "await", call |-> call, at |-> 0, io |-> NoControlError, orgs |-> NoRows,
     settings |-> NoRows]
\* the handler of call is next to run for the administrator
AdminWaits(call) == fn = NoCall \/ (fn.op = "await" /\ fn.call = call)

\* api/verify-tuttiud-setup/index.js, one step for each stretch of the handler
\* between two awaits (invocation, auth.getUser, org_memberships, org_settings,
\* organizations, the diagnostics of the tenant store): each table is read as
\* it is at the step of its await, and the store handler runs between them
verifyAnswered(p) ==
    IF verifyAwaits(p) > p.at THEN { [p EXCEPT !.at = @ + 1] }
    ELSE { [op |-> "verify-tuttiud-setup", res |-> res]
           : res \in verifyResponses(VerifyRequest, p.io, p.orgs, p.settings) }
VerifyAnswers ==
    /\ AdminWaits("verify-tuttiud-setup")
    /\ \E p \in { IF fn = NoCall THEN AdminCall("verify-tuttiud-setup") ELSE fn } :
          \E error \in ReadsOf(p) :
              fn' \in verifyAnswered(verifyRead(p, error, organizations, org_settings))
    /\ UNCHANGED <<organizations, org_settings, reqs, hist, wiz>>

\* api/setup-status/index.js, one step for each stretch of the handler between
\* two awaits (invocation, auth.getUser, org_memberships, organizations)
statusAnswered(p) ==
    IF statusAwaits(p) > p.at THEN [p EXCEPT !.at = @ + 1]
    ELSE [op |-> "setup-status", res |-> statusResponse(p)]
StatusAnswers ==
    /\ AdminWaits("setup-status")
    /\ \E p \in { IF fn = NoCall THEN AdminCall("setup-status") ELSE fn } :
          \E error \in ReadsOf(p) :
              fn' = statusAnswered(statusRead(p, error, organizations))
    /\ UNCHANGED <<organizations, org_settings, reqs, hist, wiz>>

NextSecret ==
    \/ \E r \in Slots :
          \/ ReceiveSecret(r)
          \/ Authenticate(r)
          \/ ReadMembershipWith(r, {FixedIv})
          \/ ReadOrganization(r)
          \/ StoreKey(r)
          \/ Probe(r)
          \/ Revert(r)
          \/ UpdateMetadata(r)
    \/ VerifyAnswers
    \/ StatusAnswers

SpecSecret == Init /\ [][NextSecret]_vars

\* the application keys: the one stored before any request and the submitted ones
Secrets == {k0, k1, k2, k3}

contains(chars, part) ==
    \E i \in 1..(Len(chars) - Len(part) + 1) : SubSeq(chars, i, i + Len(part) - 1) = part

\* a value holds the secret in one of its strings
RECURSIVE mentions(_, _)
mentions(value, secret) ==
    CASE value.t = "str" -> contains(value.s, secret)
      [] value.t = "obj" -> \E k \in DOMAIN value.f : mentions(value.f[k], secret)
      [] OTHER -> FALSE

\* two handled requests that differ in the submitted key only and whose probes
\* came back alike
SameButKey(a, b) ==
    /\ a.pc = "done" /\ b.pc = "done" /\ a.req /= Null /\ b.req /= Null
    /\ a.req.headers = b.req.headers /\ a.orgId = b.orgId
    /\ a.tenantSupabaseUrl = b.tenantSupabaseUrl
    /\ a.currentMetadata = b.currentMetadata
    /\ a.probe = b.probe /\ a.diagnostics = b.diagnostics

\* C26: the application key, raw or decrypted, is in no response body of the
\* three handlers and not in org_settings.metadata; the gateway writes only
\* the placeholder "stored" under credentials.tuttiudAppJwt; and two requests
\* that differ in the key only and see the same probe outcome get the same
\* response for the same status.
C26_SecretNeverLeaves ==
    /\ \A secret \in Secrets :
          /\ \A r \in Slots : ~mentions(reqs[r].res.body, secret)
          /\ "res" \in DOMAIN fn => ~mentions(fn.res.body, secret)
          /\ \A o \in DOMAIN org_settings : ~mentions(org_settings[o].metadata, secret)
    /\ \A o \in DOMAIN org_settings :
          isRecord(org_settings[o].metadata)
             => org_settings[o].metadata.f["credentials"].f["tuttiudAppJwt"] = STORED
    /\ \A a \in Slots, b \in Slots :
          (SameButKey(reqs[a], reqs[b]) /\ reqs[a].res.status = reqs[b].res.status)
             => reqs[a].res = reqs[b].res

C26_Witness ==
    /\ reqs["r1"].pc = "done" /\ reqs["r2"].pc = "done"
    /\ reqs["r1"].res.status = 200 /\ reqs["r2"].res.status = 200
    /\ reqs["r1"].appKey /= reqs["r2"].appKey
    /\ reqs["r1"].currentMetadata = LegacyMetadata
    /\ SameButKey(reqs["r1"], reqs["r2"])
    /\ org_settings[WizardOrg].metadata.f["credentials"].f["tuttiudAppJwt"] = STORED
    /\ "res" \in DOMAIN fn /\ fn.op = "verify-tuttiud-setup" /\ fn.res.status = 200

-----------------------------------------------------------------------------
(* The schema each call to the tenant store names *)

\* supabase-js: the schema of a call made without .schema(...) on a client
\* created without a db option
DefaultSchema == "public"

\* the .schema(...) of each call chain, "none" where the chain has none:
\* lib/setup-wizard.ts 519, 556, 593, 628; verify-tuttiud-setup/index.js 56;
\* store-tuttiud-app-key/index.js 182
schemaNamed ==
    [initialize |-> "tuttiud", schema |-> "none", bootstrap |-> "none",
     diagnostics |-> "none", verify |-> "tuttiud", probe |-> "tuttiud"]

targetSchema(op) == IF schemaNamed[op] = "none" THEN DefaultSchema ELSE schemaNamed[op]

\* the calls to the tenant store that are in flight
tenantCallsInFlight ==
    LET ofRuns == IF wiz.page = "open"
                  THEN { wiz.runs[i].pc : i \in 1..Len(wiz.runs) }
                          \cap {"initialize", "schema", "diagnostics", "verify"}
                  ELSE {}
        ofBootstrap == IF wiz.page = "open" /\ wiz.bootstrap = "sent" THEN {"bootstrap"} ELSE {}
        ofHandlers == IF \E r \in Slots : reqs[r].pc = "probe" THEN {"probe"} ELSE {}
    IN ofRuns \cup ofBootstrap \cup ofHandlers

\* C27: every call issued for tenant data (initialize, schema status, schema
\* bootstrap, diagnostics, the Store Credential probe, verify) targets the
\* 'tuttiud' schema, none the default schema.
C27_TenantCallsUseTuttiud ==
    \A op \in tenantCallsInFlight : targetSchema(op) = "tuttiud"

-----------------------------------------------------------------------------
(* Properties of what starts a check (spec: Step 2, no automatic retries) *)

\* a run is started by the automatic trigger
AutoStart == wiz.page = "open" /\ wiz'.autoStarts > wiz.autoStarts

\* C28: Step 2 is user-triggered: a check that starts without a click starts
\* in the step that completes a page load or an explicit refresh, only when
\* the settings loaded say "connected", and at most once per load or refresh.
C28_AutoCheckOncePerLoad ==
    [][/\ AutoStart => /\ LoadCompletes
                       /\ wiz'.settingsQuery.data /= Null
                       /\ wiz'.settingsQuery.data.metadata.connections["tuttiud"] = Connected
                       /\ wiz'.autoStarts = wiz.autoStarts + 1
       /\ wiz'.autoStarts <= wiz'.refreshToken + 1
       /\ (wiz'.lastRun.origin = "auto") => (wiz'.autoStarts > 0)
       /\ (wiz'.lastRun.origin = "manual") => (wiz'.clicks.validate > 0)]_vars

C28_Witness ==
    /\ wiz.page = "open" /\ wiz.refreshToken = 1 /\ wiz.autoStarts = 2
    /\ wiz.clicks.validate = 0
    /\ wiz.lastRun.origin = "auto" /\ wiz.lastRun.ended = "diagnostics-done"

\* the statuses of the steps that talk to a server: connectivity check,
\* schema check, diagnostics, credential submission, connection-flag commit
stepStatuses(w) ==
    [init |-> w.initState, schema |-> w.schemaState.status,
     diagnostics |-> w.diagnosticsState.status, appKey |-> w.appKeyState,
     connectionUpdate |-> w.connectionUpdateState]

\* the user clicks validate, save, retry, create or refresh in this step
UserActs ==
    \/ wiz'.clicks /= wiz.clicks
    \/ wiz'.refreshToken > wiz.refreshToken /\ wiz.bootstrap = "none"

\* an answer arrives and a step ends in error or warning
ErrorEnd ==
    /\ wiz.page = "open" /\ ~UserActs
    /\ \E step \in DOMAIN stepStatuses(wiz) :
          /\ stepStatuses(wiz')[step] \in {ERROR, WARNING}
          /\ stepStatuses(wiz')[step] /= stepStatuses(wiz)[step]

\* the step sends nothing: whatever is in flight after it was in flight before
NothingSent ==
    /\ \A i \in 1..Len(wiz'.runs) : \E j \in 1..Len(wiz.runs) : wiz'.runs[i] = wiz.runs[j]
    /\ Len(wiz'.runs) <= Len(wiz.runs)
    /\ Len(wiz'.update) <= Len(wiz.update) /\ wiz'.updatesIssued = wiz.updatesIssued
    /\ wiz'.save = "sent" => wiz.save = "sent"
    /\ wiz'.bootstrap = "sent" => wiz.bootstrap = "sent"
    /\ wiz'.setupStatusQuery.fetching => wiz.setupStatusQuery.fetching
    /\ wiz'.settingsQuery.fetching => wiz.settingsQuery.fetching
    /\ wiz'.validationTrigger = "none"

\* C29: no automatic retries: the step in which a step of the wizard ends in
\* error or warning sends no request and schedules no check, and after it
\* nothing is sent until the user acts; while the connection-flag commit is in
\* error it is issued again only by a click on retry.
C29_NoAutomaticRetry ==
    [][/\ ErrorEnd => NothingSent
       /\ (~UserActs /\ Quiet(wiz)) => NothingSent
       /\ (UpdateIssued /\ wiz.connectionUpdateState = ERROR)
             => wiz'.clicks.retry > wiz.clicks.retry]_vars

C29_Witness ==
    /\ wiz.page = "open" /\ Quiet(wiz) /\ wiz.validationTrigger = "none"
    /\ wiz.clicks.retry = 1 /\ wiz.updatesIssued = 2
    /\ wiz.connectionUpdateState = ERROR

-----------------------------------------------------------------------------
(* The return visit: an organization whose key is stored when the page     *)
(* opens, and a user who may check the connection twice                    *)

MaxReturnValidations == 2

InitReturn == InitWizardWith(InitialKeys \ {Null}, InitialMetadata)

NextReturn ==
    \/ StatusHandled
    \/ StatusArrives
    \/ SettingsRead
    \/ SettingsArrives
    \/ \E key \in ChecklistItems : ToggleChecklist(key, TRUE)
    \/ PreparationContinue
    \/ RequestValidationUpTo(MaxReturnValidations)
    \/ ValidationSettingsRead
    \/ ValidationSettingsArrive
    \/ VerifyHandled
    \/ VerifyArrives
    \/ InitializeArrives(InitializeOutcomes)
    \/ SchemaArrives(SchemaOutcomes)
    \/ DiagnosticsArrives(DiagnosticsOutcomes)
    \/ UpdateWrites
    \/ UpdateArrives

SpecReturn == InitReturn /\ [][NextReturn]_vars

\* C30: on a return visit every connectivity check calls the credential-backed
\* verify, also after a failed verify re-opened the gate and the user
\* acknowledged the checklist again: a run that went past the settings has
\* called verify, never initialize, and Step 2 is success only after a verify
\* that passed.
C30_ReturnVisitAlwaysVerifies ==
    (wiz.page = "open" /\ hist.original[WizardOrg] /= Null /\ hasDedicatedKeyStored(wiz))
        => /\ (wiz.lastRun.calls \cap {"initialize", "schema", "diagnostics"} /= {})
                 => ("verify" \in wiz.lastRun.calls /\ "initialize" \notin wiz.lastRun.calls)
           /\ wiz.initState = SUCCESS => wiz.lastRun.verify = "passed"

-----------------------------------------------------------------------------
(* Properties of the steps of one validation run (spec: Steps 2 to 5) *)

\* the answer to the initialize call of the last run arrives
InitializeAnswered ==
    /\ wiz.page = "open"
    /\ wiz.lastRun.pc = "initialize" /\ wiz'.lastRun.pc /= "initialize"

\* C31: when initialize fails with the missing-function kind the preparation
\* gate re-opens (needsPreparation, checklist and acknowledgement reset) and
\* Step 2 is warning; any other thrown failure sets Step 2 to error and leaves
\* the gate and the checklist as they were; in both cases the run ends
\* without a schema check or diagnostics.
C31_InitializeFailures ==
    [][InitializeAnswered =>
          /\ wiz'.lastRun.ended = "initialize-missing" =>
                /\ wiz'.needsPreparation
                /\ wiz'.preparationChecklist = UncheckedList
                /\ ~wiz'.preparationAcknowledged
                /\ wiz'.preparationState = WARNING /\ wiz'.initState = WARNING
          /\ wiz'.lastRun.ended = "initialize-error" =>
                /\ wiz'.initState = ERROR
                /\ wiz'.needsPreparation = wiz.needsPreparation
                /\ wiz'.preparationChecklist = wiz.preparationChecklist
                /\ wiz'.preparationAcknowledged = wiz.preparationAcknowledged
                /\ wiz'.preparationState = wiz.preparationState
          /\ wiz'.lastRun.ended \in {"initialize-missing", "initialize-error"} =>
                /\ wiz'.runs = <<>>
                /\ wiz'.lastRun.calls \cap {"schema", "diagnostics"} = {}
                /\ wiz'.schemaState.status = IDLE /\ wiz'.diagnosticsState.status = IDLE
                /\ wiz'.updatesIssued = wiz.updatesIssued]_vars

C31_Witness ==
    /\ wiz.page = "open" /\ hist.original[WizardOrg] = Null
    /\ wiz.lastRun.ended = "initialize-missing"
    /\ wiz.lastRun.calls = {"settings", "initialize"}
    /\ wiz.initState = WARNING /\ wiz.needsPreparation
    /\ wiz.preparationChecklist = UncheckedList

\* the last run passed Step 2 through the credential-backed verify
VerifiedRun(run) == "verify" \in run.calls /\ run.verificationDiagnostics /= "none"

\* C32: a run whose Step 2 succeeded through the credential-backed verify
\* never calls the diagnostics function, and when its schema check finds the
\* schema Step 4 takes the status and the diagnostics of the verify response.
C32_VerifyDiagnosticsReused ==
    [][(wiz.page = "open" /\ VerifiedRun(wiz'.lastRun)) =>
          /\ "diagnostics" \notin wiz'.lastRun.calls
          /\ wiz'.lastRun.pc /= "diagnostics"
          /\ (wiz.lastRun.pc = "schema" /\ wiz'.lastRun.pc = "none"
                /\ wiz'.schemaState.exists = "true") =>
                /\ wiz'.lastRun.ended = "diagnostics-reused"
                /\ wiz'.diagnosticsState =
                      [status |-> severityOf(wiz'.lastRun.verificationDiagnostics),
                       diagnostics |-> wiz'.lastRun.verificationDiagnostics]]_vars

C32_Witness ==
    /\ wiz.page = "open" /\ VerifiedRun(wiz.lastRun)
    /\ wiz.lastRun.ended = "diagnostics-reused"
    /\ wiz.initState = SUCCESS /\ wiz.schemaState.status = SUCCESS
    /\ wiz.diagnosticsState = [status |-> WARNING, diagnostics |-> "warning"]
    /\ wiz.lastRun.calls = {"settings", "verify", "schema"}

\* the last run sends the call named pc in this step
Sends(pc) == wiz.lastRun.pc /= pc /\ wiz'.lastRun.pc = pc

\* C33: within one run the schema check is sent only when Step 2 has just
\* succeeded in that run (the run closed the gate, and Step 2 shows success
\* or, once the load effect ran again, idle), the diagnostics only when the
\* schema check of that run answered exists = true, and a connection update
\* only once the run is over with Step 4 success; a run sends one call at a time, each only when
\* the answer to the one before has arrived.
C33_StepsInOrder ==
    [][wiz.page = "open" =>
          /\ Sends("schema") =>
                /\ wiz.lastRun.pc \in {"settings", "verify", "initialize"}
                /\ wiz'.lastRun.ended = "running"
                /\ ~wiz'.needsPreparation /\ wiz'.preparationState = SUCCESS
                /\ wiz'.initState \in {SUCCESS, IDLE}
                /\ wiz'.lastRun.sent = wiz.lastRun.sent + 1
          /\ Sends("diagnostics") =>
                /\ wiz.lastRun.pc = "schema"
                /\ ~wiz'.needsPreparation
                /\ wiz'.schemaState = [status |-> SUCCESS, exists |-> "true"]
                /\ wiz'.lastRun.sent = wiz.lastRun.sent + 1
          /\ wiz'.updatesIssued > wiz.updatesIssued =>
                /\ wiz'.runs = <<>>
                /\ wiz'.lastRun.ended \in {"diagnostics-done", "diagnostics-reused"}
                /\ wiz'.diagnosticsState.status = SUCCESS
          /\ (wiz'.lastRun.sent > wiz.lastRun.sent /\ wiz'.lastRun.pc /= "settings") =>
                /\ wiz.lastRun.pc /= "none" /\ wiz'.lastRun.pc /= wiz.lastRun.pc
                /\ wiz'.lastRun.sent = wiz.lastRun.sent + 1
          /\ Len(wiz'.runs) <= 1]_vars

C33_Witness ==
    /\ wiz.page = "open" /\ wiz.runs = <<>> /\ wiz.updatesIssued = 1
    /\ wiz.lastRun.calls = {"settings", "verify", "schema"}
    /\ wiz.lastRun.sent = 3
    /\ wiz.lastRun.ended = "diagnostics-reused"
    /\ wiz.diagnosticsState.status = SUCCESS
    /\ wiz.connectionUpdateState = LOADING

-----------------------------------------------------------------------------
(* A user who does not wait: the footer refresh button (line 1506) is never *)
(* disabled, so the page can be reloaded, and a check started again, while  *)
(* a validation run is still waiting for an answer                          *)

\* line 1506: the refresh button of the card footer
RefreshFooter ==
    /\ wiz.page = "open"
    /\ wiz.refreshToken < MaxRefreshes
    /\ Wizard(refresh(wiz))

\* lines 1396-1402: the validate button, enabled as the page renders it
RequestValidationEnabled ==
    /\ wiz.page = "open"
    /\ canRequestValidation(wiz) /\ ~isValidationLoading(wiz)
    /\ wiz.clicks.validate < MaxValidations
    /\ LET w == [wiz EXCEPT !.clicks.validate = @ + 1]
       IN Wizard(IF shouldShowPreparationGuide(wiz) /\ ~wiz.preparationAcknowledged
                 THEN [w EXCEPT !.preparationState = ERROR]
                 ELSE IF shouldShowPreparationGuide(wiz) /\ ~hasStoredAppKey(wiz)
                 THEN [w EXCEPT !.appKeyState = ERROR]
                 ELSE [w EXCEPT !.validationTrigger = "manual"])

NextStale ==
    \/ StatusHandled
    \/ StatusArrives
    \/ SettingsRead
    \/ SettingsArrives
    \/ RefreshFooter
    \/ RequestValidationEnabled
    \/ ValidationSettingsRead
    \/ ValidationSettingsArrive
    \/ VerifyHandled
    \/ VerifyArrives
    \/ SchemaArrives(SchemaOutcomes)
    \/ DiagnosticsArrives(DiagnosticsOutcomes)
    \/ UpdateWrites
    \/ UpdateArrives

SpecStale == InitWizard /\ [][NextStale]_vars

\* an answer arrives for a run that is not the newest one in flight
StaleAnswer ==
    /\ wiz.page = "open" /\ Len(wiz.runs) >= 2
    /\ wiz.runs[1] /= wiz.runs[Len(wiz.runs)]
    /\ wiz'.runs /= wiz.runs
    /\ wiz'.runs[Len(wiz'.runs)] = wiz.runs[Len(wiz.runs)]

\* C34: a response of a validation run that arrives after a newer run has
\* started changes no step status, not the gate and not the decision to
\* commit the connection.
C34_StaleResultsDiscarded ==
    [][StaleAnswer =>
          /\ stepStatuses(wiz') = stepStatuses(wiz)
          /\ wiz'.needsPreparation = wiz.needsPreparation
          /\ wiz'.preparationChecklist = wiz.preparationChecklist
          /\ wiz'.preparationAcknowledged = wiz.preparationAcknowledged
          /\ wiz'.updatesIssued = wiz.updatesIssued]_vars

-----------------------------------------------------------------------------
(* Schema bootstrap, checklist and credential submission *)

\* the answer of a bootstrap that executed arrives
BootstrapSucceeds ==
    /\ wiz.page = "open" /\ wiz.bootstrap = "sent" /\ wiz'.bootstrap = "none"
    /\ wiz'.schemaState.exists = "true"

\* the reload a successful bootstrap started is still loading: the last run
\* found no schema and Step 3 shows the schema the bootstrap created
BootstrapReloading(w) ==
    /\ w.clicks.create > 0 /\ w.bootstrap = "none"
    /\ w.lastRun.ended = "schema-absent"
    /\ w.schemaState = [status |-> SUCCESS, exists |-> "true"]
    /\ w.setupStatusQuery.status = "pending" \/ w.settingsQuery.status = "pending"

\* C35: a bootstrap that succeeds increments the refresh token, and when the
\* reload it starts completes a validation run starts without a click.
C35_BootstrapRestartsChain ==
    [][/\ BootstrapSucceeds =>
             /\ wiz'.refreshToken = wiz.refreshToken + 1
             /\ wiz'.setupStatusQuery.fetching /\ wiz'.settingsQuery.fetching
       /\ (BootstrapReloading(wiz) /\ LoadCompletes) =>
             /\ wiz'.runs /= <<>>
             /\ wiz'.lastRun.ended = "running"
             /\ wiz'.clicks = wiz.clicks]_vars

\* a user who also clears checklist items
NextChecklist ==
    \/ StatusHandled
    \/ StatusArrives
    \/ SettingsRead
    \/ SettingsArrives
    \/ \E key \in ChecklistItems : ToggleChecklist(key, TRUE)
    \/ \E key \in ChecklistItems : ToggleChecklist(key, FALSE)
    \/ PreparationContinue
    \/ TypeAppKey
    \/ RequestValidation
    \/ ValidationSettingsRead
    \/ ValidationSettingsArrive
    \/ VerifyHandled
    \/ VerifyArrives
    \/ Refresh

SpecChecklist == InitWizard /\ [][NextChecklist]_vars

\* the user clears the item key in this step
Unchecks(key) ==
    /\ wiz.page = "open"
    /\ wiz.preparationChecklist[key]
    /\ wiz'.preparationChecklist = [wiz.preparationChecklist EXCEPT ![key] = FALSE]
    /\ wiz'.needsPreparation = wiz.needsPreparation /\ wiz'.lastRun = wiz.lastRun

\* the item is one the checklist requires: all three for an organization
\* without a stored key, the script item otherwise
RequiredItem(w, key) == requiresFullPreparation(w) \/ key = "scriptExecuted"

\* C36: when the preparation is acknowledged and the user unchecks a required
\* item, the acknowledgement is revoked, so the gate is no longer passed, and
\* a Step 0 status of success returns to idle (any other status stays).
C36_UncheckRevokesAcknowledgement ==
    [][\A key \in ChecklistItems :
          (Unchecks(key) /\ wiz.preparationAcknowledged /\ RequiredItem(wiz, key)) =>
             /\ ~wiz'.preparationAcknowledged
             /\ ~GatePassed(wiz')
             /\ ~isPreparationChecklistComplete(wiz')
             /\ wiz'.preparationState = IF wiz.preparationState = SUCCESS
                                        THEN IDLE ELSE wiz.preparationState]_vars

C36_Witness ==
    /\ wiz.page = "open" /\ wiz.needsPreparation
    /\ wiz.lastRun.ended = "verify-failed"
    /\ ~wiz.preparationChecklist["scriptExecuted"]
    /\ ~wiz.preparationAcknowledged
    /\ wiz.preparationState = IDLE

\* a step of a credential submission: the click on save, the handling of the
\* request, its answer, and the answer to the status query the page
\* invalidates after a successful save
SubmissionStep ==
    /\ wiz.page = "open"
    /\ \/ wiz'.clicks.save > wiz.clicks.save
       \/ wiz.save = "sent"
       \/ /\ wiz.setupStatusQuery.status = "success" /\ wiz.setupStatusQuery.fetching
          /\ ~wiz'.setupStatusQuery.fetching

\* C37: submitting a credential in Step 1, whether the submission succeeds
\* or fails, leaves the Step 3 (schema) state and the Step 4 (diagnostics)
\* state unchanged.
C37_SaveKeepsSchemaAndDiagnostics ==
    [][SubmissionStep =>
          /\ wiz'.schemaState = wiz.schemaState
          /\ wiz'.diagnosticsState = wiz.diagnosticsState]_vars

C37_Witness ==
    /\ wiz.page = "open" /\ wiz.clicks.save = 1 /\ wiz.save = "none"
    /\ wiz.appKeyState = SUCCESS /\ ~wiz.setupStatusQuery.fetching
    /\ wiz.setupStatusQuery.data = "true"
    /\ wiz.schemaState.status = SUCCESS
    /\ wiz.diagnosticsState.status = WARNING
    /\ wiz.lastRun.origin = "auto"

\* the diagnostics RPC answers that the function does not exist
MissingDiagnostics == { [data |-> Null, error |-> code] : code \in MissingFunctionCodes }

\* the answer to the diagnostics call of the last run arrives
DiagnosticsAnswered ==
    /\ wiz.page = "open"
    /\ wiz.lastRun.pc = "diagnostics" /\ wiz'.lastRun.pc = "none"

\* C38: a missing diagnostics function is a soft warning: runDiagnostics
\* returns a result of status warning instead of throwing, and a run that
\* receives it sets Step 4 to warning, not error, and leaves the gate, the
\* checklist and the acknowledgement as they were.
C38_MissingDiagnosticsIsWarning ==
    [][/\ \A answer \in MissingDiagnostics : runDiagnostics(answer) = "warning"
       /\ \A answer \in MissingDiagnostics :
             (DiagnosticsAnswered /\ wiz'.diagnosticsState.diagnostics = runDiagnostics(answer)) =>
                /\ wiz'.lastRun.ended = "diagnostics-done"
                /\ wiz'.diagnosticsState.status = WARNING
                /\ wiz'.needsPreparation = wiz.needsPreparation
                /\ wiz'.preparationChecklist = wiz.preparationChecklist
                /\ wiz'.preparationAcknowledged = wiz.preparationAcknowledged
                /\ wiz'.preparationState = wiz.preparationState
                /\ wiz'.initState = wiz.initState /\ wiz'.schemaState = wiz.schemaState]_vars

C38_Witness ==
    /\ wiz.page = "open" /\ wiz.lastRun.ended = "diagnostics-done"
    /\ "diagnostics" \in wiz.lastRun.calls
    /\ \E answer \in MissingDiagnostics :
          wiz.diagnosticsState = [status |-> WARNING, diagnostics |-> runDiagnostics(answer)]
    /\ ~wiz.needsPreparation
    /\ wiz.schemaState.status = SUCCESS
    /\ wiz.updatesIssued = 0

\* C39 as stated: the connection flag is committed automatically only when
\* the diagnostics are 'ok'; the soft warning of a missing function and every
\* payload that is an array or not an object normalise to 'warning' or
\* 'error', and when Step 4 takes the result of such a payload (from
\* runDiagnostics or from verify) Step 4 is not success and no update is
\* issued.
C39_CommitOnlyOnOkAsStated ==
    [][wiz.page = "open" =>
          /\ \A answer \in MissingDiagnostics : runDiagnostics(answer) = "warning"
          /\ (wiz'.updatesIssued > wiz.updatesIssued /\ wiz'.clicks.retry = wiz.clicks.retry) =>
                wiz'.diagnosticsState = [status |-> SUCCESS, diagnostics |-> "ok"]
          /\ \A raw \in NonObjectPayloads :
                wiz'.diagnosticsState.diagnostics = normaliseDiagnosticsPayload(raw) =>
                   /\ wiz'.diagnosticsState.diagnostics \in {"warning", "error"}
                   /\ wiz'.diagnosticsState.status /= SUCCESS
                   /\ wiz'.updatesIssued = wiz.updatesIssued]_vars

\* the payloads that are an array or not an object and truthy, and the falsy ones
TruthyNonObjectPayloads == { raw \in NonObjectPayloads : Truthy(raw) }
FalsyPayloads == { raw \in DiagnosticsPayloads : ~Truthy(raw) }

\* C39, amended: the connection flag is committed automatically only when the
\* diagnostics are 'ok': an update issued without a click on retry comes with
\* Step 4 success on an 'ok' result; while Step 4 holds a result normalised to
\* 'warning' or 'error' (from runDiagnostics or from verify, the soft warning
\* of a missing function and truthy array or non-object payloads included)
\* Step 4 is not success and no update is issued; a falsy payload (null, the
\* empty string, 0, false) is normalised to 'ok'.
C39_CommitOnlyOnOk ==
    [][wiz.page = "open" =>
          /\ \A raw \in TruthyNonObjectPayloads : normaliseDiagnosticsPayload(raw) = "warning"
          /\ \A raw \in FalsyPayloads : normaliseDiagnosticsPayload(raw) = "ok"
          /\ \A answer \in MissingDiagnostics : runDiagnostics(answer) = "warning"
          /\ (wiz'.updatesIssued > wiz.updatesIssued /\ wiz'.clicks.retry = wiz.clicks.retry) =>
                wiz'.diagnosticsState = [status |-> SUCCESS, diagnostics |-> "ok"]
          /\ wiz'.diagnosticsState.diagnostics \in {"warning", "error"} =>
                /\ wiz'.diagnosticsState.status =
                      (IF wiz'.diagnosticsState.diagnostics = "warning" THEN WARNING ELSE ERROR)
                /\ wiz'.updatesIssued = wiz.updatesIssued]_vars

C39_Witness ==
    /\ wiz.page = "open" /\ wiz.runs = <<>>
    /\ wiz.lastRun.ended = "diagnostics-reused"
    /\ wiz.organizationSettings /= Null /\ tuttiudStatus(wiz) /= Connected
    /\ ~wiz.needsPreparation /\ wiz.initState = SUCCESS
    /\ wiz.schemaState = [status |-> SUCCESS, exists |-> "true"]
    /\ wiz.diagnosticsState = [status |-> WARNING, diagnostics |-> "warning"]
    /\ wiz.connectionUpdateState = IDLE /\ wiz.updatesIssued = 0

-----------------------------------------------------------------------------
(* Store Credential when the metadata update fails *)

\* the handler in slot r answers after a metadata update that failed, and no
\* other request has written the key since this one stored it
MetadataUpdateFails(r) ==
    /\ reqs[r].pc = "meta" /\ reqs'[r].pc = "done"
    /\ reqs'[r].res.status /= 200
    /\ rowOf(organizations, reqs[r].orgId).dedicated_key_encrypted = reqs[r].encryptedPayload

\* what setup-status answers an administrator against the organizations orgs
statusReport(orgs) == setupStatusResponse(StatusRequest, FALSE, FALSE, orgs)

\* C40: when the probe succeeded and the metadata update fails, the request
\* answers 500 and nothing is reverted: the new ciphertext stays stored and
\* the metadata is as before, so setup-status then reports hasDedicatedKey =
\* true although the request failed.
C40_FailedMarkerLeavesKey ==
    [][\A r \in Slots :
          MetadataUpdateFails(r) =>
             /\ reqs[r].probe = "ok"
             /\ reqs'[r].res.status = 500
             /\ reqs'[r].res.body = Failure
             /\ organizations' = organizations
             /\ rowOf(organizations', reqs[r].orgId).dedicated_key_encrypted
                   = reqs[r].encryptedPayload
             /\ org_settings' = org_settings
             /\ reqs[r].orgId = WizardOrg =>
                   /\ statusReport(organizations').status = 200
                   /\ statusReport(organizations').body.f["hasDedicatedKey"] = JsTrue]_vars

\* an organization that had no key: its only request failed at the metadata
\* update, the marker is absent, and setup-status has answered true
C40_Witness ==
    /\ hist.original[WizardOrg] = Null
    /\ \E r \in Slots :
          /\ reqs[r].pc = "done" /\ reqs[r].res.status = 500 /\ reqs[r].probe = "ok"
          /\ \A other \in Slots \ {r} : reqs[other].pc = "idle"
    /\ hist.lastSuccess[WizardOrg] = None
    /\ org_settings[WizardOrg].metadata = Null
    /\ Truthy(organizations[WizardOrg].dedicated_key_encrypted)
    /\ fn.op = "setup-status" /\ fn.res.status = 200
    /\ fn.res.body.f["hasDedicatedKey"] = JsTrue

====
